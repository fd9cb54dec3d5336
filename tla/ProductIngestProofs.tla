------------------------- MODULE ProductIngestProofs -------------------------
(***************************************************************************)
(* What TLAPS proves about ProductIngest for every set of events, batches, *)
(* reservations, requests and cleanup runs, and every choice of the time   *)
(* and capacity parameters the assumptions allow.                          *)
(***************************************************************************)
EXTENDS ProductIngest, FiniteSetTheorems, TLAPS

-----------------------------------------------------------------------------
(* The inductive invariant                                                 *)

(* Retirement is permanent: the receipt is gone, or sealed and deleted.    *)
Retired(r) ==
  row[r].state = "gone" \/ (row[r].state = "sealed" /\ row[r].deleted = 1)

(* A claim belongs to a receipt on record and is for one of its events.    *)
ClaimsBacked ==
  \A i \in Id : claim[i].owner # None =>
    /\ Live(claim[i].owner)
    /\ claim[i].event \in row[claim[i].owner].input

(* A sealed receipt still holds the claim of every event it accepted.      *)
AcceptedClaimed ==
  \A r \in Reservation : row[r].state = "sealed" =>
    \A e \in row[r].accepted : claim[IdOf(e)].owner = r

(* Every event a sealed receipt answers for has been archived.             *)
SealedCovered ==
  \A r \in Reservation : row[r].state = "sealed" => row[r].input \subseteq archived

(* A request's receipt was inserted, and while on record it is its batch.  *)
WorkerBatch ==
  \A w \in Worker : worker[w].pc # "idle" =>
    /\ worker[w].res \in Reservation
    /\ row[worker[w].res].state # "free"
    /\ Live(worker[w].res) => row[worker[w].res].input = worker[w].input

(* Before it reads its claims, each event of its batch is claimed by its   *)
(* receipt or archived already; afterwards the events it owns are claimed. *)
WorkerClaims ==
  \A w \in Worker :
    /\ (worker[w].pc = "reserved" /\ row[worker[w].res].state = "pending") =>
         \A e \in worker[w].input :
           claim[IdOf(e)].owner = worker[w].res \/ e \in archived
    /\ (/\ worker[w].pc \in {"put", "verify", "seal", "confirm"}
        /\ row[worker[w].res].state = "pending") =>
         /\ \A e \in worker[w].owned : claim[IdOf(e)].owner = worker[w].res
         /\ \A e \in worker[w].input : e \in worker[w].owned \/ e \in archived
    /\ worker[w].pc = "replay" => worker[w].input \subseteq archived

(* A request that got past its create has its body stored until retirement.*)
WorkerStored ==
  \A w \in Worker :
    (/\ worker[w].pc \in {"seal", "confirm"}
     /\ worker[w].owned # {}
     /\ ~Retired(worker[w].res)) =>
       object[worker[w].res] = [kind |-> "body", events |-> worker[w].owned]

(* Only the objects of retired receipts are garbage, or being cleaned.     *)
GarbageRetired ==
  /\ \A r \in Reservation : gc[r].phase # "none" => Retired(r)
  /\ \A c \in Cleaner : cleaner[c].pc # "idle" =>
       cleaner[c].key \in Reservation /\ Retired(cleaner[c].key)

(* No report row exists before the seal.                                   *)
SegmentSealed ==
  \A r \in Reservation :
    row[r].state \in {"free", "pending"} => segment[r] = "none"

Tables ==
  ClaimsBacked /\ AcceptedClaimed /\ SealedCovered /\ SegmentSealed /\ Published
Requests == WorkerBatch /\ WorkerClaims /\ WorkerStored
Objects == GarbageRetired /\ ObjectIntact

IInv == TypeOK /\ Tables /\ Requests /\ Objects /\ AckedArchived
-----------------------------------------------------------------------------
(* Type correctness                                                        *)

(* The event chosen for a claimed id is one of the batch, with that id.    *)
LEMMA VersionChosen ==
  ASSUME NEW in, NEW i, \E e \in in : IdOf(e) = i
  PROVE  Version(in, i) \in in /\ IdOf(Version(in, i)) = i
BY DEF Version

(* The tables are finite, so the amounts the counters move by are numbers. *)
LEMMA CardinalityNat ==
  ASSUME NEW r, NEW in \in Input
  PROVE  /\ Cardinality(Purged) \in Nat
         /\ Cardinality(Dead) \in Nat
         /\ Cardinality(Claimed(r)) \in Nat
         /\ Cardinality(Fresh(in)) \in Nat
<1>1. IsFiniteSet(Id) /\ IsFiniteSet(Reservation) /\ IsFiniteSet(in)
  BY EventAssumption
<1>2. /\ IsFiniteSet(Purged) /\ IsFiniteSet(Dead)
      /\ IsFiniteSet(Claimed(r)) /\ IsFiniteSet(Fresh(in))
  BY <1>1, FS_Subset DEF Purged, Dead, Claimed, Fresh
<1> QED
  BY <1>2, FS_CardinalityType

(* The initial state is well-typed.                                        *)
LEMMA TypeInit == Init => TypeOK
BY DEF Init, TypeOK, RowType, ClaimType, Phase, WorkerType, CleanerType,
       FreeRow, NoClaim, NoGc, NoObject, IdleWorker, IdleCleaner

(* Reserving keeps every table well-typed.                                 *)
LEMMA TypeReserve ==
  ASSUME TypeOK, NEW w \in Worker, NEW b \in BatchId, NEW in \in Input,
         Reserve(w, b, in)
  PROVE  TypeOK'
<1>1. in \subseteq Event
  BY EventAssumption
<1>2. PICK r \in Reservation :
        /\ row' = [q \in Reservation |->
             IF q \in Dead THEN GoneRow
             ELSE IF q = r /\ ~Live(r)
               THEN NewRow(b, in)
             ELSE row[q]]
        /\ claim' = [i \in Id |->
             IF \E e \in Fresh(in) : IdOf(e) = i
               THEN [owner |-> r, event |-> Version(in, i)]
               ELSE HeldClaim(i)]
        /\ usage' = [claims |-> usage.claims - Cardinality(Purged)
                                  + Cardinality(Fresh(in)),
                     receipts |-> usage.receipts - Cardinality(Dead)
                                  + IF Live(r) THEN 0 ELSE 1]
        /\ gc' = [q \in Reservation |-> IF q \in Dead THEN PendingGc(q)
                                                     ELSE gc[q]]
        /\ worker' = [worker EXCEPT ![w] =
             [pc |-> IF row[r].state = "sealed" THEN "replay" ELSE "reserved",
              res |-> r, input |-> in, owned |-> {}, started |-> now]]
  BY DEF Reserve
<1>3. row' \in [Reservation -> RowType]
  BY <1>1, <1>2 DEF TypeOK, RowType, GoneRow, FreeRow, NewRow
<1>4. claim' \in [Id -> ClaimType]
  <2> SUFFICES ASSUME NEW i \in Id PROVE claim'[i] \in ClaimType
    BY <1>2
  <2>1. CASE \E e \in Fresh(in) : IdOf(e) = i
    <3>1. Version(in, i) \in in
      BY <2>1, VersionChosen DEF Fresh
    <3> QED
      BY <1>1, <1>2, <2>1, <3>1 DEF ClaimType
  <2>2. CASE ~ \E e \in Fresh(in) : IdOf(e) = i
    BY <1>2, <2>2 DEF TypeOK, HeldClaim, NoClaim, ClaimType
  <2> QED
    BY <2>1, <2>2
<1>5. usage' \in [claims : Int, receipts : Int]
  <2>1. /\ Cardinality(Purged) \in Nat /\ Cardinality(Dead) \in Nat
        /\ Cardinality(Fresh(in)) \in Nat
    BY CardinalityNat
  <2>2. usage.claims \in Int /\ usage.receipts \in Int
    BY DEF TypeOK
  <2>3. (IF Live(r) THEN 0 ELSE 1) \in Int
    OBVIOUS
  <2> QED
    BY <1>2, <2>1, <2>2, <2>3
<1>6. gc' \in [Reservation -> [phase : Phase, at : Nat]]
  BY <1>2, TimeAssumption DEF TypeOK, PendingGc, Phase, RowType
<1>7. worker' \in [Worker -> WorkerType]
  BY <1>1, <1>2 DEF TypeOK, WorkerType
<1> QED
  BY <1>3, <1>4, <1>5, <1>6, <1>7 DEF TypeOK, Reserve

(* Every step a request takes after reserving keeps the types.             *)
LEMMA TypeRequest ==
  ASSUME TypeOK, NEW w \in Worker, Request(w)
  PROVE  TypeOK'
<1>0. worker \in [Worker -> WorkerType] /\ row \in [Reservation -> RowType]
  BY DEF TypeOK
<1>1. ASSUME NEW b \in BatchId, NEW in \in Input, Reserve(w, b, in)
      PROVE  TypeOK'
  BY <1>1, TypeReserve
<1>2. CASE ReplySealed(w)
  BY <1>2 DEF TypeOK, ReplySealed, database, IdleWorker, WorkerType
<1>3. CASE ReadOwned(w)
  <2>1. worker' \in [Worker -> WorkerType]
    <3>1. PICK owned \in SUBSET Event, p \in {"seal", "put"} :
            worker' = [worker EXCEPT ![w].owned = owned, ![w].pc = p]
      <4>1. worker[w].input \subseteq Event
        BY <1>0 DEF WorkerType
      <4> QED
        BY <1>3, <4>1 DEF ReadOwned
    <3>2. [worker[w] EXCEPT !.owned = owned, !.pc = p] \in WorkerType
      BY <1>0 DEF WorkerType
    <3>3. worker' = [worker EXCEPT ![w] = [worker[w] EXCEPT !.owned = owned, !.pc = p]]
      BY <3>1
    <3> HIDE DEF WorkerType
    <3> QED
      BY <1>0, <3>2, <3>3
  <2> QED
    BY <1>3, <2>1 DEF TypeOK, ReadOwned, database
<1>4. CASE PutObject(w)
  <2>1. worker' \in [Worker -> WorkerType]
    <3>1. \/ worker' = [worker EXCEPT ![w].pc = "seal"]
          \/ worker' = [worker EXCEPT ![w].pc = "verify"]
      BY <1>4 DEF PutObject
    <3> QED
      BY <1>0, <3>1 DEF WorkerType
  <2>2. worker[w].owned \subseteq Event
    BY DEF TypeOK, WorkerType
  <2>3. object' \in [Reservation -> [kind : {"absent", "fence", "body"},
                                      events : SUBSET Event]]
    BY <1>4, <2>2 DEF TypeOK, PutObject
  <2> QED
    BY <1>4, <2>1, <2>3 DEF TypeOK, PutObject, database
<1>5. CASE VerifyObject(w)
  <2>1. worker' \in [Worker -> WorkerType]
    <3>1. \/ worker' = [worker EXCEPT ![w].pc = "seal"]
          \/ worker' = [worker EXCEPT ![w] = IdleWorker]
      BY <1>5 DEF VerifyObject
    <3> QED
      BY <1>0, <3>1 DEF WorkerType, IdleWorker
  <2> QED
    BY <1>5, <2>1 DEF TypeOK, VerifyObject, database
<1>6. CASE Seal(w)
  <2>1. worker[w] \in WorkerType
    BY DEF TypeOK
  <2>2. worker' \in [Worker -> WorkerType]
    <3>1. \/ worker' = [worker EXCEPT ![w].pc = "confirm"]
          \/ worker' = [worker EXCEPT ![w] = IdleWorker]
      BY <1>6 DEF Seal
    <3> QED
      BY <1>0, <3>1 DEF WorkerType, IdleWorker
  <2>3. row' \in [Reservation -> RowType]
    <3>1. worker[w].owned \subseteq Event
      BY <2>1 DEF WorkerType
    <3>2. \/ row' = row
          \/ row' = [row EXCEPT ![worker[w].res].state = "sealed",
                                ![worker[w].res].accepted = worker[w].owned]
      BY <1>6 DEF Seal
    <3> QED
      BY <1>0, <3>1, <3>2 DEF RowType
  <2>4. archived' \subseteq Event /\ acked' \subseteq Event
    BY <1>6, <2>1 DEF TypeOK, Seal, WorkerType
  <2>5. segment' \in [Reservation -> {"none", "active", "inactive"}]
    BY <1>6 DEF TypeOK, Seal
  <2> QED
    BY <1>6, <2>2, <2>3, <2>4, <2>5 DEF TypeOK, Seal
<1>7. CASE Confirm(w)
  BY <1>7 DEF TypeOK, Confirm, database, IdleWorker, WorkerType
<1>8. CASE Abandon(w)
  BY <1>8 DEF TypeOK, Abandon, database, IdleWorker, WorkerType
<1> QED
  BY <1>1, <1>2, <1>3, <1>4, <1>5, <1>6, <1>7, <1>8 DEF Request

(* Retiring receipts, cleaning objects and the clock keep the types.       *)
LEMMA TypeRetire ==
  ASSUME TypeOK, NEW r \in Reservation, RetireReceipt(r)
  PROVE  TypeOK'
<1>1. row' \in [Reservation -> RowType]
  <2>1. row \in [Reservation -> RowType] /\ GoneRow \in RowType
    BY DEF TypeOK, RowType, GoneRow, FreeRow
  <2>2. row' = [row EXCEPT ![r] = GoneRow] \/ row' = [row EXCEPT ![r].deleted = 1]
    BY DEF RetireReceipt
  <2> QED
    BY <2>1, <2>2 DEF RowType
<1>2. claim' \in [Id -> ClaimType]
  BY DEF TypeOK, RetireReceipt, ClaimType, NoClaim
<1>3. usage' \in [claims : Int, receipts : Int]
  <2>1. Cardinality(Claimed(r)) \in Nat
    BY EventAssumption, FS_Subset, FS_CardinalityType DEF Claimed
  <2> QED
    BY <2>1 DEF TypeOK, RetireReceipt
<1>4. gc' \in [Reservation -> [phase : Phase, at : Nat]]
  BY TimeAssumption DEF TypeOK, RetireReceipt, RetiredGc, PendingGc, Phase,
                        RowType
<1>5. segment' \in [Reservation -> {"none", "active", "inactive"}]
  BY DEF TypeOK, RetireReceipt
<1> QED
  BY <1>1, <1>2, <1>3, <1>4, <1>5 DEF TypeOK, RetireReceipt

(* The phases of a cleanup run keep the types.                             *)
LEMMA TypeClean ==
  ASSUME TypeOK, NEW c \in Cleaner, Clean(c)
  PROVE  TypeOK'
<1>1. ASSUME NEW r \in Reservation, PickGarbage(c, r) PROVE TypeOK'
  BY <1>1 DEF TypeOK, PickGarbage, database, CleanerType
<1>2. CASE CleanObject(c)
  BY <1>2 DEF TypeOK, CleanObject, database, CleanerType, FenceObject, NoObject
<1>3. CASE CleanRow(c)
  <2>1. cleaner[c].started + Tombstone \in Nat
    BY TimeAssumption DEF TypeOK, CleanerType
  <2>2. gc' \in [Reservation -> [phase : Phase, at : Nat]]
    BY <1>3, <2>1 DEF TypeOK, CleanRow, NoGc, Phase, TombstoneEnd
  <2>3. cleaner' \in [Cleaner -> CleanerType]
    BY <1>3 DEF TypeOK, CleanRow, CleanerType, IdleCleaner, Phase
  <2> QED
    BY <1>3, <2>2, <2>3 DEF TypeOK, CleanRow
<1>4. CASE StopCleaner(c)
  BY <1>4 DEF TypeOK, StopCleaner, database, CleanerType, IdleCleaner, Phase
<1> QED
  BY <1>1, <1>2, <1>3, <1>4 DEF Clean

(* Every step keeps the types.                                             *)
LEMMA TypeStep == TypeOK /\ [Next]_vars => TypeOK'
<1> SUFFICES ASSUME TypeOK, [Next]_vars PROVE TypeOK'
  OBVIOUS
<1>1. CASE \E w \in Worker : Request(w)
  BY <1>1, TypeRequest
<1>2. CASE \E c \in Cleaner : Clean(c)
  BY <1>2, TypeClean
<1>3. CASE \E r \in Reservation : RetireReceipt(r)
  BY <1>3, TypeRetire
<1>4. CASE Tick
  BY <1>4 DEF TypeOK, Tick, database
<1>5. CASE UNCHANGED vars
  BY <1>5 DEF TypeOK, vars, database
<1> QED
  BY <1>1, <1>2, <1>3, <1>4, <1>5 DEF Next

(* Every reachable state is well-typed, whatever the requests do.          *)
THEOREM TypeCorrect == Spec => []TypeOK
BY TypeInit, TypeStep, PTL DEF Spec
-----------------------------------------------------------------------------
(* The invariant is inductive                                              *)

(* Nothing is stored, claimed or answered at the start.                    *)
LEMMA InvInit == Init => IInv
<1> SUFFICES ASSUME Init PROVE IInv
  OBVIOUS
<1>1. Tables
  BY DEF Init, Tables, ClaimsBacked, AcceptedClaimed, SealedCovered,
         SegmentSealed, Published, FreeRow, NoClaim
<1>2. Requests
  BY DEF Init, Requests, WorkerBatch, WorkerClaims, WorkerStored, IdleWorker
<1>3. Objects
  BY DEF Init, Objects, GarbageRetired, ObjectIntact, FreeRow, NoGc, IdleCleaner
<1>4. AckedArchived
  BY DEF Init, AckedArchived
<1> QED
  BY <1>1, <1>2, <1>3, <1>4, TypeInit DEF IInv

(* What reserving with receipt r does, receipt by receipt, id by id.       *)
ReservedAs(w, b, in, r) ==
  /\ \A q \in Dead : row[q].state = "pending" /\ row'[q] = GoneRow
  /\ Live(r) => row[r].input = in
  /\ ~Live(r) => row[r].state = "free" /\ row'[r] = NewRow(b, in)
  /\ \A q \in Reservation \ Dead : (q # r \/ Live(r)) => row'[q] = row[q]
  /\ \A i \in Id : (claim[i].owner # None /\ claim[i].owner \notin Dead) =>
                     claim'[i] = claim[i]
  /\ \A i \in Id :
       \/ claim'[i] = claim[i] /\ claim[i].owner \notin Dead
       \/ claim'[i] = NoClaim
       \/ claim'[i].owner = r /\ claim'[i].event \in in
  /\ \A e \in in : claim'[IdOf(e)].owner = r \/ e \in archived
  /\ worker' = [worker EXCEPT ![w] =
       [pc |-> IF row[r].state = "sealed" THEN "replay" ELSE "reserved",
        res |-> r, input |-> in, owned |-> {}, started |-> now]]
  /\ gc' = [q \in Reservation |-> IF q \in Dead THEN PendingGc(q) ELSE gc[q]]

(* What reserving does to the tables, receipt by receipt and id by id.     *)
LEMMA ReserveEffect ==
  ASSUME IInv, NEW w \in Worker, NEW b \in BatchId, NEW in \in Input,
         Reserve(w, b, in)
  PROVE  \E r \in Reservation \ Dead : ReservedAs(w, b, in, r)
<1> DEFINE Row(r, q) ==
      IF q \in Dead THEN GoneRow
      ELSE IF q = r /\ ~Live(r)
        THEN NewRow(b, in)
      ELSE row[q]
<1> DEFINE Claim(r, i) ==
      IF \E e \in Fresh(in) : IdOf(e) = i
        THEN [owner |-> r, event |-> Version(in, i)]
        ELSE HeldClaim(i)
<1>1. PICK r \in Reservation :
        /\ ReceiptFor(r, b, in)
        /\ ClaimsAllowed(r, in)
        /\ row' = [q \in Reservation |-> Row(r, q)]
        /\ claim' = [i \in Id |-> Claim(r, i)]
        /\ gc' = [q \in Reservation |-> IF q \in Dead THEN PendingGc(q)
                                                     ELSE gc[q]]
        /\ worker' = [worker EXCEPT ![w] =
             [pc |-> IF row[r].state = "sealed" THEN "replay" ELSE "reserved",
              res |-> r, input |-> in, owned |-> {}, started |-> now]]
  BY DEF Reserve
<1>2. in \subseteq Event /\ \A e, f \in in : IdOf(e) = IdOf(f) => e = f
  BY EventAssumption
<1>3. \A e \in in : IdOf(e) \in Id
  BY <1>2, EventAssumption
<1>4. r \notin Dead /\ (Live(r) => row[r].input = in)
                    /\ (~Live(r) => row[r].state = "free")
  BY <1>1 DEF ReceiptFor, Dead, Expired, Live
<1>5. \A q \in Dead : row[q].state = "pending" /\ row'[q] = GoneRow
  BY <1>1 DEF Dead, Expired
<1>6. \A q \in Reservation \ Dead : (q # r \/ Live(r)) => row'[q] = row[q]
  BY <1>1
<1>7. ~Live(r) => row'[r] = NewRow(b, in)
  BY <1>1, <1>4
<1>8. ASSUME NEW i \in Id, claim[i].owner # None, claim[i].owner \notin Dead
      PROVE  claim'[i] = claim[i]
  <2>1. HeldClaim(i) = claim[i]
    BY <1>8 DEF HeldClaim
  <2>2. ~ \E e \in Fresh(in) : IdOf(e) = i
    BY <1>8, <2>1 DEF Fresh
  <2> QED
    BY <1>1, <2>1, <2>2
<1>9. ASSUME NEW i \in Id
      PROVE  \/ claim'[i] = claim[i] /\ claim[i].owner \notin Dead
             \/ claim'[i] = NoClaim
             \/ claim'[i].owner = r /\ claim'[i].event \in in
  <2>1. CASE \E e \in Fresh(in) : IdOf(e) = i
    <3>1. Version(in, i) \in in
      BY <2>1, VersionChosen DEF Fresh
    <3> QED
      BY <1>1, <2>1, <3>1
  <2>2. CASE ~ \E e \in Fresh(in) : IdOf(e) = i
    BY <1>1, <2>2 DEF HeldClaim
  <2> QED
    BY <2>1, <2>2
<1>10. ASSUME NEW e \in in
       PROVE  claim'[IdOf(e)].owner = r \/ e \in archived
  <2>1. CASE e \in Fresh(in)
    BY <1>1, <1>3, <2>1
  <2>2. CASE e \notin Fresh(in)
    <3> DEFINE c == claim[IdOf(e)]
    <3>1. HeldClaim(IdOf(e)).owner # None
      BY <2>2 DEF Fresh
    <3>2. HeldClaim(IdOf(e)) = c /\ c.owner \notin Dead /\ c.owner # None
      BY <3>1 DEF HeldClaim, NoClaim
    <3>3. c.event = e /\ (c.owner # r => row[c.owner].state # "pending")
      BY <1>1, <3>1, <3>2 DEF ClaimsAllowed
    <3>4. Live(c.owner) /\ e \in row[c.owner].input
      BY <1>3, <3>2, <3>3 DEF IInv, Tables, ClaimsBacked
    <3>5. claim'[IdOf(e)] = c
      BY <1>3, <1>8, <3>2
    <3>6. c.owner \in Reservation
      BY <1>3, <3>2 DEF IInv, TypeOK, ClaimType
    <3> QED
      BY <3>3, <3>4, <3>5, <3>6 DEF IInv, Tables, SealedCovered, Live
  <2> QED
    BY <2>1, <2>2
<1>11. ReservedAs(w, b, in, r)
  BY <1>1, <1>4, <1>5, <1>6, <1>7, <1>8, <1>9, <1>10 DEF ReservedAs
<1> QED
  BY <1>4, <1>11

(* Reserving keeps every part of the invariant.                            *)
LEMMA InvReserve ==
  ASSUME IInv, NEW w \in Worker, NEW b \in BatchId, NEW in \in Input,
         Reserve(w, b, in)
  PROVE  Tables' /\ Requests' /\ Objects' /\ AckedArchived'
<1>0. PICK r \in Reservation \ Dead : ReservedAs(w, b, in, r)
  BY ReserveEffect
<1>1. /\ \A q \in Dead : row[q].state = "pending" /\ row'[q] = GoneRow
      /\ Live(r) => row[r].input = in
      /\ ~Live(r) => row[r].state = "free" /\ row'[r] = NewRow(b, in)
      /\ \A q \in Reservation \ Dead : (q # r \/ Live(r)) => row'[q] = row[q]
      /\ \A i \in Id : (claim[i].owner # None /\ claim[i].owner \notin Dead) =>
                         claim'[i] = claim[i]
      /\ \A i \in Id :
           \/ claim'[i] = claim[i] /\ claim[i].owner \notin Dead
           \/ claim'[i] = NoClaim
           \/ claim'[i].owner = r /\ claim'[i].event \in in
      /\ \A e \in in : claim'[IdOf(e)].owner = r \/ e \in archived
      /\ worker' = [worker EXCEPT ![w] =
           [pc |-> IF row[r].state = "sealed" THEN "replay" ELSE "reserved",
            res |-> r, input |-> in, owned |-> {}, started |-> now]]
      /\ gc' = [q \in Reservation |-> IF q \in Dead THEN PendingGc(q) ELSE gc[q]]
  BY <1>0 DEF ReservedAs
<1>2. UNCHANGED <<now, segment, object, cleaner, archived, acked>>
  BY DEF Reserve
<1>3. /\ GoneRow.state = "gone"
      /\ ~Live(r) => /\ row'[r].state = "pending" /\ row'[r].input = in
  BY <1>1 DEF GoneRow, FreeRow, NewRow
<1>4. row'[r].input = in /\ Live(r)'
  BY <1>1, <1>3 DEF Live
<1>5. \A q \in Reservation : row'[q].state = "sealed" =>
        row'[q] = row[q] /\ q \notin Dead
  BY <1>1, <1>3 DEF Live
<1>6. \A q \in Reservation : row[q].state = "sealed" => row'[q] = row[q]
  BY <1>1, <1>3 DEF Live
<1>7. \A q \in Reservation : Retired(q) => Retired(q)'
  BY <1>1, <1>3, <1>6 DEF Retired, Live
<1>8. \A i \in Id : claim[i].owner \in Reservation \union {None}
  BY DEF IInv, TypeOK, ClaimType
<1>9. ClaimsBacked'
  <2> SUFFICES ASSUME NEW i \in Id, claim'[i].owner # None
               PROVE  /\ row'[claim'[i].owner].state \in {"pending", "sealed"}
                      /\ claim'[i].event \in row'[claim'[i].owner].input
    BY DEF ClaimsBacked, Live
  <2>1. CASE claim'[i].owner = r /\ claim'[i].event \in in
    BY <1>4, <2>1 DEF Live
  <2>2. CASE claim'[i] = claim[i] /\ claim[i].owner \notin Dead
    <3>1. Live(claim[i].owner) /\ claim[i].event \in row[claim[i].owner].input
      BY <2>2 DEF IInv, Tables, ClaimsBacked
    <3>2. claim[i].owner \in Reservation \ Dead
      BY <1>8, <2>2
    <3>3. row'[claim[i].owner] = row[claim[i].owner]
      BY <1>1, <3>1, <3>2
    <3> QED
      BY <2>2, <3>1, <3>3 DEF Live
  <2> QED
    BY <1>1, <2>1, <2>2 DEF NoClaim
<1>10. AcceptedClaimed'
  <2> SUFFICES ASSUME NEW q \in Reservation, row'[q].state = "sealed",
                      NEW e \in row'[q].accepted
               PROVE  claim'[IdOf(e)].owner = q
    BY DEF AcceptedClaimed
  <2>1. row'[q] = row[q] /\ q \notin Dead /\ q # None
    BY <1>5, EventAssumption
  <2>2. IdOf(e) \in Id
    BY <2>1, EventAssumption DEF IInv, TypeOK, RowType
  <2>3. claim[IdOf(e)].owner = q
    BY <2>1 DEF IInv, Tables, AcceptedClaimed
  <2> QED
    BY <1>1, <2>1, <2>2, <2>3
<1>11. SealedCovered'
  BY <1>2, <1>5 DEF IInv, Tables, SealedCovered
<1>12. SegmentSealed'
  BY <1>1, <1>2, <1>3 DEF IInv, Tables, SegmentSealed, Live
<1>13. Published'
  BY <1>2, <1>5, <1>6 DEF IInv, Tables, Published
<1>14. ASSUME NEW v \in Worker, v # w, worker[v].pc # "idle",
             row'[worker[v].res].state \in {"pending", "sealed"}
       PROVE  /\ worker[v].res \in Reservation \ Dead
              /\ row'[worker[v].res] = row[worker[v].res]
  BY <1>1, <1>3, <1>14 DEF IInv, Requests, WorkerBatch, Live
<1>15. \A v \in Worker : v # w => worker'[v] = worker[v]
  BY <1>1
<1>16. worker'[w] = [pc |-> IF row[r].state = "sealed" THEN "replay" ELSE "reserved",
                     res |-> r, input |-> in, owned |-> {}, started |-> now]
  BY <1>1 DEF IInv, TypeOK
<1>17. WorkerBatch'
  <2> SUFFICES ASSUME NEW v \in Worker, worker'[v].pc # "idle"
               PROVE  /\ worker'[v].res \in Reservation
                      /\ row'[worker'[v].res].state # "free"
                      /\ row'[worker'[v].res].state \in {"pending", "sealed"} =>
                           row'[worker'[v].res].input = worker'[v].input
    BY DEF WorkerBatch, Live
  <2>1. CASE v = w
    BY <1>4, <1>16, <2>1 DEF Live
  <2>2. CASE v # w
    <3>1. /\ worker[v].res \in Reservation
          /\ row[worker[v].res].state # "free"
          /\ Live(worker[v].res) => row[worker[v].res].input = worker[v].input
      BY <1>15, <2>2 DEF IInv, Requests, WorkerBatch
    <3>2. worker'[v] = worker[v]
      BY <1>15, <2>2
    <3>3. row'[worker[v].res].state # "free"
      BY <1>1, <1>3, <3>1
    <3> QED
      BY <1>14, <2>2, <3>1, <3>2, <3>3 DEF Live
  <2> QED
    BY <2>1, <2>2
<1>18. WorkerClaims'
  <2> SUFFICES ASSUME NEW v \in Worker
               PROVE
      /\ (worker'[v].pc = "reserved" /\ row'[worker'[v].res].state = "pending") =>
           \A e \in worker'[v].input :
             claim'[IdOf(e)].owner = worker'[v].res \/ e \in archived
      /\ (/\ worker'[v].pc \in {"put", "verify", "seal", "confirm"}
          /\ row'[worker'[v].res].state = "pending") =>
           /\ \A e \in worker'[v].owned : claim'[IdOf(e)].owner = worker'[v].res
           /\ \A e \in worker'[v].input : e \in worker'[v].owned \/ e \in archived
      /\ worker'[v].pc = "replay" => worker'[v].input \subseteq archived
    BY <1>2 DEF WorkerClaims
  <2>1. CASE v = w
    <3>1. row[r].state = "sealed" => in \subseteq archived
      BY <1>1 DEF IInv, Tables, SealedCovered, Live
    <3> QED
      BY <1>1, <1>16, <2>1, <3>1
  <2>2. CASE v # w
    <3>1. worker'[v] = worker[v]
      BY <1>15, <2>2
    <3>2. worker[v].input \subseteq Event /\ worker[v].owned \subseteq Event
      BY DEF IInv, TypeOK, WorkerType
    <3>3. \A e \in Event : IdOf(e) \in Id
      BY EventAssumption
    <3>4. ASSUME worker[v].pc # "idle", row'[worker[v].res].state = "pending"
          PROVE  /\ row[worker[v].res].state = "pending"
                 /\ \A e \in Event : claim[IdOf(e)].owner = worker[v].res =>
                                      claim'[IdOf(e)].owner = worker[v].res
      <4>1. worker[v].res \in Reservation \ Dead
            /\ row'[worker[v].res] = row[worker[v].res]
        BY <1>14, <2>2, <3>4 DEF Live
      <4>2. worker[v].res # None
        BY <4>1, EventAssumption
      <4> QED
        BY <1>1, <3>3, <3>4, <4>1, <4>2
    <3> QED
      BY <3>1, <3>2, <3>4 DEF IInv, Requests, WorkerClaims
  <2> QED
    BY <2>1, <2>2
<1>19. WorkerStored'
  <2> SUFFICES ASSUME NEW v \in Worker, worker'[v].pc \in {"seal", "confirm"},
                      worker'[v].owned # {},
                      row'[worker'[v].res].state # "gone",
                      ~(/\ row'[worker'[v].res].state = "sealed"
                        /\ row'[worker'[v].res].deleted = 1)
               PROVE  object[worker'[v].res] =
                        [kind |-> "body", events |-> worker'[v].owned]
    BY <1>2 DEF WorkerStored, Retired
  <2>1. v # w
    BY <1>16
  <2>2. worker'[v] = worker[v] /\ worker[v].res \in Reservation
    BY <1>15, <2>1 DEF IInv, Requests, WorkerBatch
  <2> QED
    BY <1>7, <2>2 DEF IInv, Requests, WorkerStored, Retired
<1>20. GarbageRetired'
  <2>1. \A q \in Dead : Retired(q)'
    BY <1>1, <1>3 DEF Retired
  <2> QED
    BY <1>1, <1>2, <1>7, <2>1 DEF IInv, Objects, GarbageRetired
<1>21. ObjectIntact'
  BY <1>2, <1>5 DEF IInv, Objects, ObjectIntact
<1>22. AckedArchived'
  BY <1>2 DEF IInv, AckedArchived
<1> QED
  BY <1>9, <1>10, <1>11, <1>12, <1>13, <1>17, <1>18, <1>19, <1>20, <1>21, <1>22
     DEF Tables, Requests, Objects

(* The table parts read nothing but the tables.                            *)
LEMMA TablesFrame ==
  ASSUME Tables, UNCHANGED <<row, claim, segment, archived>>
  PROVE  Tables'
BY DEF Tables, ClaimsBacked, AcceptedClaimed, SealedCovered, SegmentSealed,
       Published, Live

(* A request that ends, with or without an answer, keeps the invariant.    *)
LEMMA InvLeave ==
  ASSUME IInv, NEW w \in Worker,
         worker' = [worker EXCEPT ![w] = IdleWorker],
         UNCHANGED <<now, database, object, cleaner, archived>>,
         acked' \subseteq archived
  PROVE  Tables' /\ Requests' /\ Objects' /\ AckedArchived'
<1>1. UNCHANGED <<row, claim, gc, segment>>
  BY DEF database
<1>2. \A v \in Worker : worker'[v] = worker[v] \/ worker'[v].pc = "idle"
  BY DEF IInv, TypeOK, IdleWorker
<1>3. Tables'
  BY <1>1, TablesFrame DEF IInv
<1>4. Requests'
  BY <1>1, <1>2 DEF IInv, Requests, WorkerBatch, WorkerClaims, WorkerStored,
                    Live, Retired
<1>5. Objects'
  BY <1>1 DEF IInv, Objects, GarbageRetired, ObjectIntact, Retired
<1>6. AckedArchived'
  BY DEF AckedArchived
<1> QED
  BY <1>3, <1>4, <1>5, <1>6

(* Reading the claims back: the events it does not own are archived.       *)
LEMMA InvReadOwned ==
  ASSUME IInv, NEW w \in Worker, ReadOwned(w)
  PROVE  Tables' /\ Requests' /\ Objects' /\ AckedArchived'
<1> DEFINE owned == {e \in worker[w].input :
                      claim[IdOf(e)].owner = worker[w].res}
<1>1. UNCHANGED <<row, claim, gc, segment, object, cleaner, archived, acked>>
  BY DEF ReadOwned, database
<1>2. /\ worker[w].pc = "reserved"
      /\ worker' = [worker EXCEPT ![w].owned = owned,
                     ![w].pc = IF owned = {} THEN "seal" ELSE "put"]
  BY DEF ReadOwned
<1>3. /\ worker'[w].owned = owned
      /\ worker'[w].pc = IF owned = {} THEN "seal" ELSE "put"
      /\ worker'[w].res = worker[w].res /\ worker'[w].input = worker[w].input
  BY <1>2 DEF IInv, TypeOK, WorkerType
<1>4. /\ \A v \in Worker : v # w => worker'[v] = worker[v]
      /\ worker[w].pc # "idle"
  BY <1>2 DEF IInv, TypeOK
<1>5. Tables'
  BY <1>1, TablesFrame DEF IInv
<1>6. WorkerBatch'
  BY <1>1, <1>3, <1>4 DEF IInv, Requests, WorkerBatch, Live
<1>7. WorkerClaims'
  <2>1. row[worker[w].res].state = "pending" =>
          \A e \in worker[w].input : e \in owned \/ e \in archived
    BY <1>2 DEF IInv, Requests, WorkerClaims
  <2> HIDE DEF owned
  <2>2. \A e \in owned : claim[IdOf(e)].owner = worker[w].res
    BY DEF owned
  <2> QED
    BY <1>1, <1>3, <1>4, <2>1, <2>2 DEF IInv, Requests, WorkerClaims
<1>8. WorkerStored'
  <2> HIDE DEF owned
  <2> QED
    BY <1>1, <1>3, <1>4 DEF IInv, Requests, WorkerStored, Retired
<1>9. Objects'
  BY <1>1 DEF IInv, Objects, GarbageRetired, ObjectIntact, Retired
<1>10. AckedArchived'
  BY <1>1 DEF IInv, AckedArchived
<1> QED
  BY <1>5, <1>6, <1>7, <1>8, <1>9, <1>10 DEF Requests

(* Storing or recognising its body: nobody else's stored body is touched.  *)
LEMMA InvPut ==
  ASSUME IInv, NEW w \in Worker, PutObject(w) \/ VerifyObject(w)
  PROVE  Tables' /\ Requests' /\ Objects' /\ AckedArchived'
<1> DEFINE r == worker[w].res
<1> DEFINE body == [kind |-> "body", events |-> worker[w].owned]
<1>1. UNCHANGED <<row, claim, gc, segment, cleaner, archived, acked>>
  BY DEF PutObject, VerifyObject, database
<1>2. worker[w].pc \in {"put", "verify"} /\ r \in Reservation
  BY DEF PutObject, VerifyObject, IInv, Requests, WorkerBatch
<1>3. CASE worker' = [worker EXCEPT ![w] = IdleWorker]
  <2>1. UNCHANGED <<now, database, object>>
    <3>1. worker'[w] = IdleWorker
      BY <1>3 DEF IInv, TypeOK
    <3>2. PutObject(w) => worker'[w].pc # "idle"
      BY DEF PutObject, IInv, TypeOK, WorkerType
    <3> QED
      BY <3>1, <3>2 DEF VerifyObject, IdleWorker
  <2>2. acked' \subseteq archived
    BY <1>1 DEF IInv, AckedArchived
  <2> QED
    BY <1>1, <1>3, <2>1, <2>2, InvLeave
<1>4. CASE worker' # [worker EXCEPT ![w] = IdleWorker]
  <2>1. \/ /\ worker' = [worker EXCEPT ![w].pc = "seal"]
           /\ \/ object[r].kind = "absent" /\ object' = [object EXCEPT ![r] = body]
              \/ object[r] = body /\ object' = object
        \/ worker' = [worker EXCEPT ![w].pc = "verify"] /\ object' = object
    BY <1>4 DEF PutObject, VerifyObject, Creatable
  <2>2. /\ worker'[w].pc \in {"seal", "verify"}
        /\ worker'[w].owned = worker[w].owned
        /\ worker'[w].res = worker[w].res /\ worker'[w].input = worker[w].input
        /\ worker'[w].pc = "seal" => object'[r] = body
    BY <1>2, <2>1 DEF IInv, TypeOK, WorkerType
  <2>3. \A v \in Worker : v # w => worker'[v] = worker[v]
    BY <2>1 DEF IInv, TypeOK
  <2>4. \A q \in Reservation :
          object[q].kind = "body" => object'[q] = object[q]
    BY <2>1 DEF IInv, TypeOK
  <2> HIDE DEF body
  <2>5. Tables'
    BY <1>1, TablesFrame DEF IInv
  <2>6. WorkerBatch'
    BY <1>1, <1>2, <2>2, <2>3 DEF IInv, Requests, WorkerBatch, Live
  <2>7. WorkerClaims'
    BY <1>1, <1>2, <2>2, <2>3 DEF IInv, Requests, WorkerClaims
  <2>8. WorkerStored'
    <3> SUFFICES ASSUME NEW v \in Worker, worker'[v].pc \in {"seal", "confirm"},
                        worker'[v].owned # {}, ~Retired(worker'[v].res)
                 PROVE  object'[worker'[v].res] =
                          [kind |-> "body", events |-> worker'[v].owned]
      BY <1>1 DEF WorkerStored, Retired
    <3>1. CASE v = w
      BY <2>2, <3>1 DEF body
    <3>2. CASE v # w
      <4>1. worker'[v] = worker[v] /\ worker[v].res \in Reservation
        BY <2>3, <3>2 DEF IInv, Requests, WorkerBatch
      <4>2. object[worker[v].res] = [kind |-> "body", events |-> worker[v].owned]
        BY <4>1 DEF IInv, Requests, WorkerStored
      <4> QED
        BY <2>4, <4>1, <4>2
    <3> QED
      BY <3>1, <3>2
  <2>9. Objects'
    BY <1>1, <2>4 DEF IInv, Objects, GarbageRetired, ObjectIntact, Retired
  <2>10. AckedArchived'
    BY <1>1 DEF IInv, AckedArchived
  <2> QED
    BY <2>5, <2>6, <2>7, <2>8, <2>9, <2>10 DEF Requests
<1> QED
  BY <1>3, <1>4

(* Sealing: the accepted events are the ones it holds the claims of, all   *)
(* of its batch is archived by then, and its body is what R2 stores.       *)
LEMMA InvSeal ==
  ASSUME IInv, NEW w \in Worker, Seal(w)
  PROVE  Tables' /\ Requests' /\ Objects' /\ AckedArchived'
<1> DEFINE r == worker[w].res
<1> DEFINE owned == worker[w].owned
<1>1. /\ UNCHANGED <<claim, gc, object, cleaner>>
      /\ worker[w].pc = "seal" /\ r \in Reservation
  BY DEF Seal, IInv, Requests, WorkerBatch
<1>2. segment' = [segment EXCEPT ![r] =
        IF @ = "none" /\ Indexable(r, owned) THEN "active" ELSE @]
  BY DEF Seal
<1>3. CASE Sealable(w)
  <2>1. /\ row' = [row EXCEPT ![r].state = "sealed", ![r].accepted = owned]
        /\ archived' = archived \union owned
        /\ acked' = acked \union worker[w].input
        /\ worker' = [worker EXCEPT ![w] = IdleWorker]
    BY <1>3 DEF Seal
  <2>2. row[r].state = "pending"
    BY <1>3 DEF Sealable
  <2>3. /\ row'[r].state = "sealed" /\ row'[r].accepted = owned
        /\ row'[r].input = row[r].input /\ row'[r].deleted = row[r].deleted
        /\ \A q \in Reservation : q # r => row'[q] = row[q]
    BY <1>1, <2>1 DEF IInv, TypeOK, RowType
  <2>4. \A v \in Worker : worker'[v] = worker[v] \/ worker'[v].pc = "idle"
    BY <2>1 DEF IInv, TypeOK, IdleWorker
  <2>5. /\ \A e \in owned : claim[IdOf(e)].owner = r
        /\ \A e \in worker[w].input : e \in owned \/ e \in archived
    BY <1>1, <2>2 DEF IInv, Requests, WorkerClaims
  <2>6. row[r].input = worker[w].input
    BY <1>1, <2>2 DEF IInv, Requests, WorkerBatch, Live
  <2>7. owned # {} => object[r] = [kind |-> "body", events |-> owned]
    BY <1>1, <2>2 DEF IInv, Requests, WorkerStored, Retired
  <2>8. \A q \in Reservation : q # r => segment'[q] = segment[q]
    BY <1>2 DEF IInv, TypeOK
  <2>9. segment'[r] = "active" <=> (owned # {} /\ row'[r].deleted = 0)
    <3>1. segment[r] = "none"
      BY <1>1, <2>2 DEF IInv, Tables, SegmentSealed
    <3>2. Indexable(r, owned) <=> (owned # {} /\ row'[r].deleted = 0)
      BY <2>3 DEF Indexable
    <3>3. segment'[r] = IF Indexable(r, owned) THEN "active" ELSE "none"
      BY <1>1, <1>2, <3>1 DEF IInv, TypeOK
    <3> QED
      BY <3>2, <3>3
  <2> HIDE DEF r, owned
  <2>10. ClaimsBacked'
    BY <1>1, <2>2, <2>3 DEF IInv, Tables, ClaimsBacked, Live, TypeOK, ClaimType
  <2>11. AcceptedClaimed'
    BY <1>1, <2>3, <2>5 DEF IInv, Tables, AcceptedClaimed
  <2>12. SealedCovered'
    BY <2>1, <2>3, <2>5, <2>6 DEF IInv, Tables, SealedCovered
  <2>13. SegmentSealed'
    BY <2>3, <2>8 DEF IInv, Tables, SegmentSealed
  <2>14. Published'
    BY <2>3, <2>8, <2>9 DEF IInv, Tables, Published
  <2>15. \A q \in Reservation : Retired(q) => Retired(q)'
    BY <2>2, <2>3 DEF Retired
  <2>16. WorkerBatch'
    BY <2>2, <2>3, <2>4 DEF IInv, Requests, WorkerBatch, Live
  <2>17. WorkerClaims'
    <3> SUFFICES ASSUME NEW v \in Worker, worker'[v].pc # "idle"
        PROVE
          /\ (worker[v].pc = "reserved" /\ row'[worker[v].res].state = "pending") =>
               \A e \in worker[v].input :
                 claim[IdOf(e)].owner = worker[v].res \/ e \in archived'
          /\ (/\ worker[v].pc \in {"put", "verify", "seal", "confirm"}
              /\ row'[worker[v].res].state = "pending") =>
               /\ \A e \in worker[v].owned : claim[IdOf(e)].owner = worker[v].res
               /\ \A e \in worker[v].input :
                    e \in worker[v].owned \/ e \in archived'
          /\ worker[v].pc = "replay" => worker[v].input \subseteq archived'
      BY <1>1, <2>4 DEF WorkerClaims
    <3>1. worker[v].pc # "idle" /\ worker[v].res \in Reservation
      BY <2>4 DEF IInv, Requests, WorkerBatch
    <3>2. row'[worker[v].res].state = "pending" =>
            row[worker[v].res].state = "pending"
      BY <2>3, <3>1
    <3>3. archived \subseteq archived'
      BY <2>1
    <3> QED
      BY <3>2, <3>3 DEF IInv, Requests, WorkerClaims
  <2>18. WorkerStored'
    BY <1>1, <2>2, <2>3, <2>4 DEF IInv, Requests, WorkerBatch, WorkerStored, Retired
  <2>19. Objects'
    BY <1>1, <2>3, <2>7, <2>15 DEF IInv, Objects, GarbageRetired, ObjectIntact
  <2>20. AckedArchived'
    BY <2>1, <2>5 DEF IInv, AckedArchived
  <2> QED
    BY <2>10, <2>11, <2>12, <2>13, <2>14, <2>16, <2>17, <2>18, <2>19, <2>20
       DEF Tables, Requests
<1>4. CASE ~Sealable(w)
  <2>1. /\ UNCHANGED <<row, archived, acked>>
        /\ worker' = [worker EXCEPT ![w].pc = "confirm"]
    BY <1>4 DEF Seal
  <2>2. segment' = segment
    <3>1. Indexable(r, owned) => segment[r] = "active"
      BY <1>1, <2>1 DEF Indexable, IInv, Tables, Published
    <3> QED
      BY <1>2, <3>1 DEF IInv, TypeOK
  <2>3. /\ worker'[w].pc = "confirm" /\ worker'[w].owned = owned
        /\ worker'[w].res = r /\ worker'[w].input = worker[w].input
        /\ \A v \in Worker : v # w => worker'[v] = worker[v]
    BY <2>1 DEF IInv, TypeOK, WorkerType
  <2>4. Tables'
    BY <1>1, <2>1, <2>2, TablesFrame DEF IInv
  <2>5. WorkerBatch'
    BY <1>1, <2>1, <2>3 DEF IInv, Requests, WorkerBatch, Live
  <2>6. WorkerClaims'
    BY <1>1, <2>1, <2>3 DEF IInv, Requests, WorkerClaims
  <2>7. WorkerStored'
    BY <1>1, <2>1, <2>3 DEF IInv, Requests, WorkerStored, Retired
  <2>8. Objects'
    BY <1>1, <2>1 DEF IInv, Objects, GarbageRetired, ObjectIntact, Retired
  <2>9. AckedArchived'
    BY <2>1 DEF IInv, AckedArchived
  <2> QED
    BY <2>4, <2>5, <2>6, <2>7, <2>8, <2>9 DEF Requests
<1> QED
  BY <1>3, <1>4

(* Every step of a request keeps every part of the invariant.              *)
LEMMA InvRequest ==
  ASSUME IInv, NEW w \in Worker, Request(w)
  PROVE  Tables' /\ Requests' /\ Objects' /\ AckedArchived'
<1>1. ASSUME NEW b \in BatchId, NEW in \in Input, Reserve(w, b, in)
      PROVE  Tables' /\ Requests' /\ Objects' /\ AckedArchived'
  BY <1>1, InvReserve
<1>2. CASE ReplySealed(w)
  <2>1. worker[w].input \subseteq archived
    BY <1>2 DEF ReplySealed, IInv, Requests, WorkerClaims
  <2> QED
    BY <1>2, <2>1, InvLeave DEF ReplySealed, IInv, AckedArchived
<1>3. CASE ReadOwned(w)
  BY <1>3, InvReadOwned
<1>4. CASE PutObject(w) \/ VerifyObject(w)
  BY <1>4, InvPut
<1>5. CASE Seal(w)
  BY <1>5, InvSeal
<1>6. CASE Confirm(w)
  <2>1. SealedAs(worker[w].res, worker[w].owned) =>
          worker[w].input \subseteq archived
    <3>1. worker[w].res \in Reservation
          /\ (Live(worker[w].res) => row[worker[w].res].input = worker[w].input)
      BY <1>6 DEF Confirm, IInv, Requests, WorkerBatch
    <3> QED
      BY <3>1 DEF SealedAs, Live, IInv, Tables, SealedCovered
  <2> QED
    BY <1>6, <2>1, InvLeave DEF Confirm, IInv, AckedArchived
<1>7. CASE Abandon(w)
  BY <1>7, InvLeave DEF Abandon, IInv, AckedArchived
<1> QED
  BY <1>1, <1>2, <1>3, <1>4, <1>5, <1>6, <1>7 DEF Request

(* Retiring a receipt withdraws it for good, with its report row.          *)
LEMMA InvRetire ==
  ASSUME IInv, NEW r \in Reservation, RetireReceipt(r)
  PROVE  Tables' /\ Requests' /\ Objects' /\ AckedArchived'
<1>1. UNCHANGED <<now, object, worker, cleaner, archived, acked>>
  BY DEF RetireReceipt
<1>2. /\ Due(r)
      /\ row[r].received \in Nat
      /\ row[r].state \in {"pending", "sealed"}
  BY DEF RetireReceipt, Due, Expired, RawDue, IdentityDue, IInv, TypeOK, RowType
<1>3. \/ row' = [row EXCEPT ![r] = GoneRow]
      \/ row[r].state = "sealed" /\ row' = [row EXCEPT ![r].deleted = 1]
  BY DEF RetireReceipt, Due, Forgotten, RawDue
<1>4. /\ \A q \in Reservation : q # r => row'[q] = row[q]
      /\ \/ row'[r].state = "gone"
         \/ /\ row'[r].state = "sealed" /\ row[r].state = "sealed"
            /\ row'[r].deleted = 1 /\ row'[r].accepted = row[r].accepted
            /\ row'[r].input = row[r].input
  <2>1. row \in [Reservation -> RowType]
    BY DEF IInv, TypeOK
  <2>2. GoneRow.state = "gone"
    BY DEF GoneRow, FreeRow
  <2> QED
    BY <1>3, <2>1, <2>2 DEF RowType
<1>5. /\ row'[r].state = "gone" => \A i \in Id : claim'[i].owner # r
      /\ \A i \in Id : claim[i].owner # r => claim'[i] = claim[i]
      /\ \A i \in Id : claim'[i] = claim[i] \/ claim'[i] = NoClaim
      /\ row'[r].state # "gone" => claim' = claim
  <2>1. r # None
    BY EventAssumption
  <2>2. CASE Forgotten(r)
    <3>1. claim' = [i \in Id |-> IF claim[i].owner = r THEN NoClaim ELSE claim[i]]
          /\ row' = [row EXCEPT ![r] = GoneRow]
      BY <2>2 DEF RetireReceipt
    <3>2. row'[r].state = "gone" /\ NoClaim.owner # r
      BY <2>1, <3>1 DEF IInv, TypeOK, GoneRow, NoClaim
    <3> QED
      BY <3>1, <3>2
  <2>3. CASE ~Forgotten(r)
    <3>1. claim' = claim /\ row' = [row EXCEPT ![r].deleted = 1]
      BY <2>3 DEF RetireReceipt
    <3>2. row'[r].state # "gone"
      BY <1>2, <3>1 DEF IInv, TypeOK, RowType
    <3> QED
      BY <3>1, <3>2
  <2> QED
    BY <2>2, <2>3
<1>6. /\ \A q \in Reservation : q # r => segment'[q] = segment[q]
      /\ segment'[r] # "active"
  <2> DEFINE retiring == RawDue(r) /\ row[r].deleted = 0 /\ row[r].accepted # {}
  <2>1. segment' = [segment EXCEPT ![r] =
          IF retiring /\ @ = "active" THEN "inactive" ELSE @]
    BY DEF RetireReceipt
  <2>2. segment[r] = "active" => retiring
    <3>1. segment[r] = "active" =>
            row[r].state = "sealed" /\ row[r].deleted = 0 /\ row[r].accepted # {}
      BY DEF IInv, Tables, Published
    <3>2. IdentityDue(r) => RawDue(r)
      BY <1>2, TimeAssumption DEF IdentityDue, RawDue, IInv, TypeOK
    <3> QED
      BY <1>2, <3>1, <3>2 DEF Due, Expired
  <2> QED
    BY <2>1, <2>2 DEF IInv, TypeOK
<1>7. \A q \in Reservation : q # r => gc'[q] = gc[q]
  BY DEF RetireReceipt, IInv, TypeOK
<1>8. \A q \in Reservation : q = r \/ Retired(q) => Retired(q)'
  BY <1>4 DEF Retired
<1>9. ClaimsBacked'
  BY <1>4, <1>5 DEF IInv, Tables, ClaimsBacked, Live, NoClaim, TypeOK, ClaimType
<1>10. AcceptedClaimed'
  <2> SUFFICES ASSUME NEW q \in Reservation, row'[q].state = "sealed",
                      NEW e \in row'[q].accepted
               PROVE  claim'[IdOf(e)].owner = q
    BY DEF AcceptedClaimed
  <2>1. row[q].state = "sealed" /\ e \in row[q].accepted
    BY <1>4
  <2>2. IdOf(e) \in Id
    BY <2>1, EventAssumption DEF IInv, TypeOK, RowType
  <2>3. claim[IdOf(e)].owner = q
    BY <2>1 DEF IInv, Tables, AcceptedClaimed
  <2> QED
    BY <1>4, <1>5, <2>2, <2>3
<1>11. SealedCovered' /\ SegmentSealed' /\ Published'
  BY <1>1, <1>4, <1>6 DEF IInv, Tables, SealedCovered, SegmentSealed, Published
<1>12. \A v \in Worker : worker[v].pc # "idle" =>
         /\ worker[v].res \in Reservation
         /\ row'[worker[v].res].state = "pending" =>
              worker[v].res # r /\ row[worker[v].res].state = "pending"
  BY <1>4 DEF IInv, Requests, WorkerBatch
<1>13. WorkerBatch'
  BY <1>1, <1>4, <1>12 DEF IInv, Requests, WorkerBatch, Live
<1>14. WorkerClaims'
  <2> SUFFICES ASSUME NEW v \in Worker, worker[v].pc # "idle",
                      row'[worker[v].res].state = "pending"
               PROVE  \A e \in Event : claim[IdOf(e)].owner = worker[v].res =>
                                       claim'[IdOf(e)].owner = worker[v].res
    <3>1. \A v \in Worker :
            worker[v].input \subseteq Event /\ worker[v].owned \subseteq Event
      BY DEF IInv, TypeOK, WorkerType
    <3> QED
      BY <1>1, <1>12, <3>1 DEF IInv, Requests, WorkerClaims
  <2>1. worker[v].res # r
    BY <1>12
  <2> QED
    BY <1>5, <2>1, EventAssumption
<1>15. WorkerStored'
  <2> SUFFICES ASSUME NEW v \in Worker, worker[v].pc \in {"seal", "confirm"},
                      worker[v].owned # {}, Retired(worker[v].res)
               PROVE  Retired(worker[v].res)'
    BY <1>1 DEF IInv, Requests, WorkerStored
  <2> QED
    BY <1>1, <1>8, <1>12 DEF Retired
<1>16. Objects'
  BY <1>1, <1>4, <1>7, <1>8 DEF IInv, Objects, GarbageRetired, ObjectIntact
<1>17. AckedArchived'
  BY <1>1 DEF IInv, AckedArchived
<1> QED
  BY <1>9, <1>10, <1>11, <1>13, <1>14, <1>15, <1>16, <1>17 DEF Tables, Requests

(* Cleaning touches the objects of retired receipts only.                  *)
LEMMA InvClean ==
  ASSUME IInv, NEW c \in Cleaner, Clean(c)
  PROVE  Tables' /\ Requests' /\ Objects' /\ AckedArchived'
<1>1. UNCHANGED <<row, claim, segment, worker, archived, acked>>
  BY DEF Clean, PickGarbage, CleanObject, CleanRow, StopCleaner, database
<1>2. \A r \in Reservation : Retired(r)' = Retired(r)
  BY <1>1 DEF Retired
<1>3. \A r \in Reservation : ~Retired(r) => object'[r] = object[r]
  <2>1. CASE CleanObject(c)
    <3>1. Retired(cleaner[c].key)
      BY <2>1 DEF CleanObject, IInv, Objects, GarbageRetired
    <3> QED
      BY <2>1, <3>1 DEF CleanObject, IInv, TypeOK
  <2>2. CASE ~CleanObject(c)
    BY <2>2 DEF Clean, PickGarbage, CleanRow, StopCleaner
  <2> QED
    BY <2>1, <2>2
<1>4. \A r \in Reservation : gc'[r].phase # "none" => gc[r].phase # "none"
  <2>1. CASE CleanRow(c)
    <3>1. cleaner[c].key \in Reservation
      BY <2>1 DEF CleanRow, IInv, Objects, GarbageRetired
    <3> QED
      BY <2>1, <3>1 DEF CleanRow, NoGc, IInv, TypeOK
  <2>2. CASE ~CleanRow(c)
    BY <2>2 DEF Clean, PickGarbage, CleanObject, StopCleaner, database
  <2> QED
    BY <2>1, <2>2
<1>5. \A d \in Cleaner : cleaner'[d].pc # "idle" =>
        /\ cleaner'[d].key \in Reservation
        /\ Retired(cleaner'[d].key)
  <2>1. ASSUME NEW r \in Reservation, PickGarbage(c, r)
        PROVE  /\ Retired(r)
               /\ cleaner'[c].key = r
               /\ \A d \in Cleaner : d # c => cleaner'[d] = cleaner[d]
    BY <2>1 DEF PickGarbage, IInv, TypeOK, Objects, GarbageRetired
  <2>2. CASE \E r \in Reservation : PickGarbage(c, r)
    BY <2>1, <2>2 DEF IInv, Objects, GarbageRetired
  <2>3. CASE CleanObject(c)
    <3>1. /\ cleaner'[c].key = cleaner[c].key /\ cleaner[c].pc # "idle"
          /\ \A d \in Cleaner : d # c => cleaner'[d] = cleaner[d]
      BY <2>3 DEF CleanObject, IInv, TypeOK, CleanerType
    <3> QED
      BY <3>1 DEF IInv, Objects, GarbageRetired
  <2>4. CASE CleanRow(c) \/ StopCleaner(c)
    <3>1. \A d \in Cleaner : cleaner'[d] = cleaner[d] \/ cleaner'[d].pc = "idle"
      BY <2>4 DEF CleanRow, StopCleaner, IdleCleaner, IInv, TypeOK
    <3> QED
      BY <3>1 DEF IInv, Objects, GarbageRetired
  <2> QED
    BY <2>2, <2>3, <2>4 DEF Clean
<1>6. Tables'
  BY <1>1, TablesFrame DEF IInv
<1>7. WorkerBatch' /\ WorkerClaims'
  BY <1>1 DEF IInv, Requests, WorkerBatch, WorkerClaims, Live
<1>8. WorkerStored'
  <2> SUFFICES ASSUME NEW v \in Worker, worker[v].pc \in {"seal", "confirm"},
                      worker[v].owned # {}, ~Retired(worker[v].res)
               PROVE  object'[worker[v].res] =
                        [kind |-> "body", events |-> worker[v].owned]
    BY <1>1 DEF WorkerStored, Retired
  <2>1. worker[v].res \in Reservation
    BY DEF IInv, Requests, WorkerBatch
  <2> QED
    BY <1>3, <2>1 DEF IInv, Requests, WorkerStored
<1>9. Objects'
  <2>1. GarbageRetired'
    <3>1. \A r \in Reservation : gc'[r].phase # "none" => Retired(r)
      BY <1>4 DEF IInv, Objects, GarbageRetired
    <3> QED
      BY <1>1, <1>5, <3>1 DEF GarbageRetired, Retired
  <2>2. ObjectIntact'
    BY <1>1, <1>3 DEF IInv, Objects, ObjectIntact, Retired
  <2> QED
    BY <2>1, <2>2 DEF Objects
<1>10. AckedArchived'
  BY <1>1 DEF IInv, AckedArchived
<1> QED
  BY <1>6, <1>7, <1>8, <1>9, <1>10 DEF Requests

(* Every step keeps the invariant.                                         *)
LEMMA InvStep == IInv /\ [Next]_vars => IInv'
<1> SUFFICES ASSUME IInv, [Next]_vars PROVE IInv'
  OBVIOUS
<1>1. TypeOK'
  BY TypeStep DEF IInv
<1>2. CASE \E w \in Worker : Request(w)
  BY <1>1, <1>2, InvRequest DEF IInv
<1>3. CASE \E c \in Cleaner : Clean(c)
  BY <1>1, <1>3, InvClean DEF IInv
<1>4. CASE \E r \in Reservation : RetireReceipt(r)
  BY <1>1, <1>4, InvRetire DEF IInv
<1>5. CASE Tick \/ UNCHANGED vars
  <2>1. UNCHANGED <<row, claim, gc, segment, object, worker, cleaner,
                    archived, acked>>
    BY <1>5 DEF Tick, vars, database
  <2>2. Tables'
    BY <2>1, TablesFrame DEF IInv
  <2>3. Requests' /\ Objects' /\ AckedArchived'
    BY <2>1 DEF IInv, Requests, WorkerBatch, WorkerClaims, WorkerStored, Objects,
                GarbageRetired, ObjectIntact, AckedArchived, Live, Retired
  <2> QED
    BY <1>1, <2>2, <2>3 DEF IInv
<1> QED
  BY <1>2, <1>3, <1>4, <1>5 DEF Next

(* The invariant holds in every reachable state.                           *)
THEOREM Invariant == Spec => []IInv
BY InvInit, InvStep, PTL DEF Spec
-----------------------------------------------------------------------------
(* What follows from it                                                    *)

(* An event id is accepted by at most one receipt on record: two receipts  *)
(* that both accepted it would both hold its single claim.                 *)
THEOREM AcceptedAtMostOnce == Spec => []AtMostOnce
<1>1. IInv => AtMostOnce
  BY DEF IInv, Tables, AcceptedClaimed, AtMostOnce
<1> QED
  BY <1>1, Invariant, PTL

(* The object of a sealed, unretired receipt is exactly what it accepted.  *)
THEOREM ObjectsIntact == Spec => []ObjectIntact
<1>1. IInv => ObjectIntact
  BY DEF IInv, Objects
<1> QED
  BY <1>1, Invariant, PTL

(* No client is ever told that an event is stored which never was.         *)
THEOREM AnswersBacked == Spec => []AckedArchived
<1>1. IInv => AckedArchived
  BY DEF IInv
<1> QED
  BY <1>1, Invariant, PTL

(* Reports index the unretired sealed objects, each of them and no other.  *)
THEOREM ReportsComplete == Spec => []Published
<1>1. IInv => Published
  BY DEF IInv, Tables
<1> QED
  BY <1>1, Invariant, PTL
-----------------------------------------------------------------------------
(* The counters of the capacity triggers                                   *)

ClaimedIds == {i \in Id : claim[i].owner # None}
LiveRows == {r \in Reservation : Live(r)}
Waiting == {r \in Reservation : row[r].state = "pending" /\ ~Expired(r)}

(* Distinct events of a batch have distinct ids.                           *)
LEMMA FreshIds ==
  ASSUME NEW in \in Input
  PROVE  LET ids == {IdOf(e) : e \in Fresh(in)} IN
         IsFiniteSet(ids) /\ Cardinality(ids) = Cardinality(Fresh(in))
<1> DEFINE ids == {IdOf(e) : e \in Fresh(in)}
<1>1. \A e, f \in Fresh(in) : IdOf(e) = IdOf(f) => e = f
  BY EventAssumption DEF Fresh
<1>2. IsFiniteSet(Fresh(in))
  BY EventAssumption, FS_Subset DEF Fresh
<1> DEFINE g == [e \in Fresh(in) |-> IdOf(e)]
<1>3. g \in Bijection(Fresh(in), ids)
  BY <1>1 DEF Bijection, Injection, Surjection, IsInjective
<1>4. ExistsBijection(Fresh(in), ids)
  BY <1>3 DEF ExistsBijection
<1> QED
  BY <1>2, <1>4, FS_Bijection

(* Taking a part out of a finite set takes its size off.                   *)
LEMMA WithoutPart ==
  ASSUME NEW S, IsFiniteSet(S), NEW T, T \subseteq S
  PROVE  /\ IsFiniteSet(S \ T)
         /\ Cardinality(S \ T) = Cardinality(S) - Cardinality(T)
<1>1. S \cap T = T
  OBVIOUS
<1> QED
  BY <1>1, FS_Difference

(* Adding a part that is not there adds its size.                          *)
LEMMA WithPart ==
  ASSUME NEW S, IsFiniteSet(S), NEW T, IsFiniteSet(T), S \cap T = {}
  PROVE  Cardinality(S \union T) = Cardinality(S) + Cardinality(T)
<1>1. /\ Cardinality(S \union T)
           = Cardinality(S) + Cardinality(T) - Cardinality(S \cap T)
      /\ Cardinality(S \cap T) = 0
  BY FS_Union, FS_EmptySet
<1>2. Cardinality(S) \in Nat /\ Cardinality(T) \in Nat
  BY FS_CardinalityType
<1> QED
  BY <1>1, <1>2

(* The tables that the counters count are finite.                          *)
LEMMA TablesFinite ==
  /\ IsFiniteSet(ClaimedIds) /\ IsFiniteSet(LiveRows) /\ IsFiniteSet(Waiting)
  /\ IsFiniteSet(Purged) /\ IsFiniteSet(Dead)
<1>1. IsFiniteSet(Id) /\ IsFiniteSet(Reservation)
  BY EventAssumption
<1> QED
  BY <1>1, FS_Subset DEF ClaimedIds, LiveRows, Waiting, Purged, Dead

(* A reservation counts what it purges and what it adds.                   *)
LEMMA UsageReserve ==
  ASSUME TypeOK, UsageExact, NEW w \in Worker, NEW b \in BatchId,
         NEW in \in Input, Reserve(w, b, in)
  PROVE  UsageExact'
<1> DEFINE ids == {IdOf(e) : e \in Fresh(in)}
<1>1. PICK r \in Reservation :
        /\ ReceiptFor(r, b, in)
        /\ ClaimsAllowed(r, in)
        /\ row' = [q \in Reservation |->
             IF q \in Dead THEN GoneRow
             ELSE IF q = r /\ ~Live(r)
               THEN NewRow(b, in)
             ELSE row[q]]
        /\ claim' = [i \in Id |->
             IF \E e \in Fresh(in) : IdOf(e) = i
               THEN [owner |-> r, event |-> Version(in, i)]
               ELSE HeldClaim(i)]
        /\ usage' = [claims |-> usage.claims - Cardinality(Purged)
                                  + Cardinality(Fresh(in)),
                     receipts |-> usage.receipts - Cardinality(Dead)
                                  + IF Live(r) THEN 0 ELSE 1]
  BY DEF Reserve
<1>2. /\ usage.claims = Cardinality(ClaimedIds)
      /\ usage.receipts = Cardinality(LiveRows)
      /\ usage.claims <= ClaimCapacity /\ usage.receipts <= ReceiptCapacity
      /\ Cardinality(Waiting) <= PendingCapacity
  BY DEF UsageExact, ClaimedIds, LiveRows, Waiting
<1>3. /\ Cardinality(ClaimedIds) \in Nat /\ Cardinality(LiveRows) \in Nat
      /\ Cardinality(Purged) \in Nat /\ Cardinality(Dead) \in Nat
      /\ Cardinality(Fresh(in)) \in Nat
      /\ ClaimCapacity \in Nat /\ ReceiptCapacity \in Nat /\ PendingCapacity \in Nat
  BY TablesFinite, FS_CardinalityType, CardinalityNat, CapacityAssumption
<1>4. now' = now /\ r # None /\ None \notin Dead
  BY EventAssumption DEF Reserve, Dead
<1>5. r \notin Dead /\ (~Live(r) => row[r].state = "free")
  BY <1>1 DEF ReceiptFor, Dead, Expired, Live
<1>6. usage'.claims = Cardinality(ClaimedIds)' /\ usage'.claims <= ClaimCapacity
  <2>1. Purged \subseteq ClaimedIds
    BY <1>4 DEF Purged, ClaimedIds
  <2>2. ids \subseteq Id
    BY EventAssumption DEF Fresh
  <2>3. (ClaimedIds \ Purged) \cap ids = {}
    BY DEF ClaimedIds, Purged, Fresh, HeldClaim
  <2>4. ClaimedIds' = (ClaimedIds \ Purged) \union ids
    <3>1. \A i \in Id : claim'[i].owner # None <=>
            i \in ids \/ HeldClaim(i).owner # None
      BY <1>1, <1>4
    <3>2. \A i \in Id : HeldClaim(i).owner # None <=>
            claim[i].owner # None /\ claim[i].owner \notin Dead
      BY <1>4 DEF HeldClaim, NoClaim
    <3> HIDE DEF ids
    <3> QED
      BY <2>2, <3>1, <3>2 DEF ClaimedIds, Purged
  <2>5. IsFiniteSet(ids) /\ Cardinality(ids) = Cardinality(Fresh(in))
    BY FreshIds
  <2> HIDE DEF ids
  <2>6. Cardinality(ClaimedIds') =
          Cardinality(ClaimedIds) - Cardinality(Purged) + Cardinality(Fresh(in))
    <3>1. /\ IsFiniteSet(ClaimedIds \ Purged)
          /\ Cardinality(ClaimedIds \ Purged) = Cardinality(ClaimedIds) - Cardinality(Purged)
      BY <2>1, TablesFinite, WithoutPart
    <3>2. Cardinality((ClaimedIds \ Purged) \union ids)
            = Cardinality(ClaimedIds \ Purged) + Cardinality(ids)
      BY <2>3, <2>5, <3>1, WithPart
    <3> QED
      BY <2>4, <2>5, <3>1, <3>2
  <2>7. usage'.claims = usage.claims - Cardinality(Purged) + Cardinality(Fresh(in))
    BY <1>1
  <2>8. usage'.claims <= ClaimCapacity
    <3>1. CASE Fresh(in) = {}
      <4>1. Cardinality(Fresh(in)) = 0
        BY <3>1, FS_EmptySet
      <4> QED
        BY <1>2, <1>3, <2>7, <4>1
    <3>2. CASE Fresh(in) # {}
      BY <1>1, <2>7, <3>2 DEF ClaimsAllowed
    <3> QED
      BY <3>1, <3>2
  <2> QED
    BY <1>2, <2>6, <2>7, <2>8
<1>7. Dead \subseteq LiveRows
  BY DEF Dead, Expired, LiveRows, Live
<1>8. \A q \in Reservation : Live(q)' <=> q = r \/ (Live(q) /\ q \notin Dead)
  BY <1>1, <1>5 DEF Live, GoneRow, FreeRow, NewRow
<1>9. usage'.receipts = Cardinality(LiveRows)' /\ usage'.receipts <= ReceiptCapacity
  <2>1. /\ IsFiniteSet(LiveRows \ Dead)
        /\ Cardinality(LiveRows \ Dead) = Cardinality(LiveRows) - Cardinality(Dead)
    BY <1>7, TablesFinite, WithoutPart
  <2>2. LiveRows' = (LiveRows \ Dead) \union {r}
    BY <1>8 DEF LiveRows
  <2>3. r \in LiveRows \ Dead <=> Live(r)
    BY <1>5 DEF LiveRows
  <2>4. Cardinality(LiveRows') =
          Cardinality(LiveRows) - Cardinality(Dead) + (IF Live(r) THEN 0 ELSE 1)
    <3>1. Cardinality(LiveRows') =
            IF Live(r) THEN Cardinality(LiveRows \ Dead)
                       ELSE Cardinality(LiveRows \ Dead) + 1
      BY <2>1, <2>2, <2>3, FS_AddElement
    <3> QED
      BY <1>3, <2>1, <3>1
  <2>5. usage'.receipts =
          usage.receipts - Cardinality(Dead) + (IF Live(r) THEN 0 ELSE 1)
    BY <1>1
  <2>6. ~Live(r) => usage.receipts - Cardinality(Dead) < ReceiptCapacity
    BY <1>1 DEF ReceiptFor
  <2> QED
    BY <1>2, <1>3, <2>4, <2>5, <2>6
<1>10. Cardinality(Waiting)' <= PendingCapacity
  <2> DEFINE before == {q \in Reservation \ Dead : row[q].state = "pending"}
  <2>1. before = Waiting
    BY DEF Dead, Waiting
  <2>2. Waiting' \subseteq before \union {r}
    BY <1>1 DEF Waiting, GoneRow, FreeRow
  <2>3. Live(r) => Waiting' \subseteq before
    BY <1>1 DEF Waiting, GoneRow, FreeRow
  <2>4. IsFiniteSet(before) /\ Cardinality(before) \in Nat
    BY <2>1, TablesFinite, FS_CardinalityType
  <2>5. CASE Live(r)
    <3>1. Cardinality(Waiting') <= Cardinality(before) /\ Cardinality(Waiting') \in Nat
      BY <2>3, <2>4, <2>5, FS_Subset, FS_CardinalityType
    <3>2. Cardinality(before) <= PendingCapacity
      BY <1>2, <2>1
    <3> HIDE DEF before
    <3> QED
      BY <1>3, <2>4, <3>1, <3>2
  <2>6. CASE ~Live(r)
    <3>1. Cardinality(before) < PendingCapacity
      BY <1>1, <2>6 DEF ReceiptFor, Live
    <3>2. /\ IsFiniteSet(before \union {r})
          /\ Cardinality(before \union {r}) <= Cardinality(before) + 1
      <4> HIDE DEF before
      <4>1. /\ IsFiniteSet(before \union {r})
            /\ \/ Cardinality(before \union {r}) = Cardinality(before)
               \/ Cardinality(before \union {r}) = Cardinality(before) + 1
        BY <2>4, FS_AddElement, Zenon
      <4> QED
        BY <2>4, <4>1
    <3>3. /\ Cardinality(Waiting') <= Cardinality(before \union {r})
          /\ Cardinality(Waiting') \in Nat /\ Cardinality(before \union {r}) \in Nat
      BY <2>2, <3>2, FS_Subset, FS_CardinalityType
    <3> HIDE DEF before
    <3> QED
      BY <1>3, <2>4, <3>1, <3>2, <3>3
  <2> QED
    BY <2>5, <2>6
<1> QED
  BY <1>6, <1>9, <1>10 DEF UsageExact, ClaimedIds, LiveRows, Waiting

(* Retiring a receipt takes off exactly what goes with it.                 *)
LEMMA UsageRetire ==
  ASSUME TypeOK, UsageExact, NEW r \in Reservation, RetireReceipt(r)
  PROVE  UsageExact'
<1>1. /\ usage.claims = Cardinality(ClaimedIds)
      /\ usage.receipts = Cardinality(LiveRows)
      /\ usage.claims <= ClaimCapacity /\ usage.receipts <= ReceiptCapacity
      /\ Cardinality(Waiting) <= PendingCapacity
  BY DEF UsageExact, ClaimedIds, LiveRows, Waiting
<1>2. /\ now' = now /\ Live(r) /\ r # None
  BY EventAssumption DEF RetireReceipt, Due, Expired, RawDue, IdentityDue, Live
<1>3. /\ Cardinality(ClaimedIds) \in Nat /\ Cardinality(LiveRows) \in Nat
      /\ Cardinality(Claimed(r)) \in Nat /\ IsFiniteSet(Claimed(r))
      /\ ClaimCapacity \in Nat /\ ReceiptCapacity \in Nat
  BY TablesFinite, FS_CardinalityType, FS_Subset, EventAssumption, CapacityAssumption
     DEF Claimed
<1>4. Waiting' \subseteq Waiting
  <2>1. \/ row' = [row EXCEPT ![r] = GoneRow] \/ row' = [row EXCEPT ![r].deleted = 1]
    BY DEF RetireReceipt
  <2>2. ASSUME NEW q \in Reservation, row'[q].state = "pending"
        PROVE  row[q].state = "pending" /\ row'[q].received = row[q].received
    <3>1. CASE row' = [row EXCEPT ![r] = GoneRow]
      <4>1. q # r /\ row'[q] = row[q]
        BY <2>2, <3>1 DEF TypeOK, GoneRow, FreeRow
      <4> QED
        BY <2>2, <4>1
    <3>2. CASE row' = [row EXCEPT ![r].deleted = 1]
      BY <2>2, <3>2 DEF TypeOK, RowType
    <3> QED
      BY <2>1, <3>1, <3>2
  <2> QED
    BY <1>2, <2>2 DEF Waiting, Expired
<1>5. Cardinality(Waiting)' <= PendingCapacity
  <2>1. /\ Cardinality(Waiting') <= Cardinality(Waiting)
        /\ Cardinality(Waiting') \in Nat /\ Cardinality(Waiting) \in Nat
    BY <1>4, TablesFinite, FS_Subset, FS_CardinalityType
  <2> QED
    BY <1>1, <2>1, CapacityAssumption
<1>6. CASE Forgotten(r)
  <2>1. /\ claim' = [i \in Id |-> IF claim[i].owner = r THEN NoClaim ELSE claim[i]]
        /\ usage' = [claims |-> usage.claims - Cardinality(Claimed(r)),
                     receipts |-> usage.receipts - 1]
        /\ row' = [row EXCEPT ![r] = GoneRow]
    BY <1>6 DEF RetireReceipt
  <2>2. ClaimedIds' = ClaimedIds \ Claimed(r)
    BY <2>1 DEF ClaimedIds, Claimed, NoClaim
  <2>3. Claimed(r) \subseteq ClaimedIds
    BY <1>2 DEF ClaimedIds, Claimed
  <2>4. Cardinality(ClaimedIds') = Cardinality(ClaimedIds) - Cardinality(Claimed(r))
    BY <2>2, <2>3, TablesFinite, WithoutPart
  <2>5. LiveRows' = LiveRows \ {r} /\ r \in LiveRows
    BY <1>2, <2>1 DEF LiveRows, Live, GoneRow, FreeRow, TypeOK
  <2>6. Cardinality(LiveRows') = Cardinality(LiveRows) - 1
    BY <2>5, TablesFinite, FS_RemoveElement
  <2>7. /\ usage'.claims = usage.claims - Cardinality(Claimed(r))
        /\ usage'.receipts = usage.receipts - 1
    BY <2>1
  <2> QED
    BY <1>1, <1>3, <1>5, <2>4, <2>6, <2>7 DEF UsageExact, ClaimedIds, LiveRows, Waiting
<1>7. CASE ~Forgotten(r)
  <2>1. UNCHANGED <<claim, usage>> /\ row' = [row EXCEPT ![r].deleted = 1]
    BY <1>7 DEF RetireReceipt
  <2>2. LiveRows' = LiveRows
    <3>1. \A q \in Reservation : row'[q].state = row[q].state
      BY <2>1 DEF TypeOK, RowType
    <3> QED
      BY <3>1 DEF LiveRows, Live
  <2>3. ClaimedIds' = ClaimedIds
    BY <2>1 DEF ClaimedIds
  <2> QED
    BY <1>1, <1>5, <2>1, <2>2, <2>3 DEF UsageExact, ClaimedIds, LiveRows, Waiting
<1> QED
  BY <1>6, <1>7

(* Every other step leaves the counted tables and their sizes alone; the   *)
(* seal and the clock only make fewer receipts wait.                       *)
LEMMA UsageStep == TypeOK /\ UsageExact /\ [Next]_vars => UsageExact'
<1> SUFFICES ASSUME TypeOK, UsageExact, [Next]_vars PROVE UsageExact'
  OBVIOUS
<1>1. CASE \E w \in Worker, b \in BatchId, in \in Input : Reserve(w, b, in)
  BY <1>1, UsageReserve
<1>2. CASE \E r \in Reservation : RetireReceipt(r)
  BY <1>2, UsageRetire
<1>3. ASSUME UNCHANGED <<claim, usage>>,
             \A q \in Reservation :
               /\ Live(q)' <=> Live(q)
               /\ row'[q].state = "pending" => row[q].state = "pending"
               /\ row'[q].received = row[q].received,
             now' = now \/ now' = now + 1
      PROVE  UsageExact'
  <2>1. LiveRows' = LiveRows /\ ClaimedIds' = ClaimedIds
    BY <1>3 DEF LiveRows, ClaimedIds
  <2>2. Waiting' \subseteq Waiting
    <3> SUFFICES ASSUME NEW q \in Waiting' PROVE q \in Waiting
      OBVIOUS
    <3>1. /\ q \in Reservation /\ row[q].state = "pending"
          /\ ~(row[q].received + PendingTtl <= now')
      BY <1>3 DEF Waiting, Expired
    <3>2. row[q].received \in Nat /\ now \in Nat /\ PendingTtl \in Nat
      BY <3>1, TimeAssumption DEF TypeOK, RowType
    <3> QED
      BY <1>3, <3>1, <3>2 DEF Waiting, Expired
  <2>3. /\ Cardinality(Waiting') <= Cardinality(Waiting)
        /\ Cardinality(Waiting') \in Nat /\ Cardinality(Waiting) \in Nat
    BY <2>2, TablesFinite, FS_Subset, FS_CardinalityType
  <2>4. /\ usage.claims = Cardinality(ClaimedIds)
        /\ usage.receipts = Cardinality(LiveRows)
        /\ usage.claims <= ClaimCapacity /\ usage.receipts <= ReceiptCapacity
        /\ Cardinality(Waiting) <= PendingCapacity
    BY DEF UsageExact, ClaimedIds, LiveRows, Waiting
  <2>5. Cardinality(Waiting') <= PendingCapacity
    BY <2>3, <2>4, CapacityAssumption
  <2>6. /\ usage'.claims = Cardinality(ClaimedIds')
        /\ usage'.receipts = Cardinality(LiveRows')
        /\ usage'.claims <= ClaimCapacity /\ usage'.receipts <= ReceiptCapacity
    BY <1>3, <2>1, <2>4
  <2> QED
    BY <2>5, <2>6 DEF UsageExact, ClaimedIds, LiveRows, Waiting
<1>4. ASSUME NEW w \in Worker, Request(w),
             ~ \E b \in BatchId, in \in Input : Reserve(w, b, in)
      PROVE  UsageExact'
  <2>1. UNCHANGED <<now, claim, usage>>
    BY <1>4 DEF Request, ReplySealed, ReadOwned, PutObject, VerifyObject, Seal,
                Confirm, Abandon, database
  <2>2. \/ row' = row
        \/ /\ row[worker[w].res].state = "pending"
           /\ row' = [row EXCEPT ![worker[w].res].state = "sealed",
                                 ![worker[w].res].accepted = worker[w].owned]
    BY <1>4 DEF Request, ReplySealed, ReadOwned, PutObject, VerifyObject, Seal,
                Sealable, Confirm, Abandon, database
  <2>3. \A q \in Reservation :
          /\ Live(q)' <=> Live(q)
          /\ row'[q].state = "pending" => row[q].state = "pending"
          /\ row'[q].received = row[q].received
    BY <2>2 DEF TypeOK, RowType, Live
  <2> QED
    BY <1>3, <2>1, <2>3
<1>5. CASE (\E c \in Cleaner : Clean(c)) \/ UNCHANGED vars
  <2>1. UNCHANGED <<now, row, claim, usage>>
    BY <1>5 DEF Clean, PickGarbage, CleanObject, CleanRow, StopCleaner, vars, database
  <2> QED
    BY <1>3, <2>1 DEF Live
<1>6. CASE Tick
  <2>1. UNCHANGED <<row, claim, usage>> /\ now' = now + 1
    BY <1>6 DEF Tick, database
  <2> QED
    BY <1>3, <2>1 DEF Live
<1> QED
  BY <1>1, <1>2, <1>4, <1>5, <1>6 DEF Next

(* The counters that the capacity triggers read are at all times the sizes *)
(* of the tables they stand for, and the tables are within the capacities. *)
THEOREM CountersExact == Spec => []UsageExact
<1>1. Init => UsageExact
  <2> SUFFICES ASSUME Init PROVE UsageExact
    OBVIOUS
  <2>1. /\ ClaimedIds = {} /\ LiveRows = {} /\ Waiting = {}
        /\ usage.claims = 0 /\ usage.receipts = 0
    BY DEF Init, ClaimedIds, LiveRows, Waiting, Live, NoClaim, FreeRow
  <2>2. Cardinality({}) = 0
    BY FS_EmptySet
  <2>3. ClaimCapacity \in Nat /\ ReceiptCapacity \in Nat /\ PendingCapacity \in Nat
    BY CapacityAssumption
  <2>4. /\ usage.claims = Cardinality(ClaimedIds)
        /\ usage.receipts = Cardinality(LiveRows)
        /\ Cardinality(Waiting) <= PendingCapacity
        /\ usage.claims <= ClaimCapacity /\ usage.receipts <= ReceiptCapacity
    BY <2>1, <2>2, <2>3
  <2> QED
    BY <2>4 DEF UsageExact, ClaimedIds, LiveRows, Waiting
<1> QED
  BY <1>1, UsageStep, TypeCorrect, PTL DEF Spec
-----------------------------------------------------------------------------
(***************************************************************************)
(* What becomes of the objects: none is ever left with nobody to remove    *)
(* it, and an erased key never holds events again.                         *)
(*                                                                         *)
(* Two kinds of facts are needed on top of IInv: that the claims of a      *)
(* receipt never change while it is on record, which rests on the window   *)
(* of acceptance being shorter than the memory of identities; and that     *)
(* nothing that was alive when a key was fenced is alive when its          *)
(* tombstone is deleted, which rests on the bound of a run's life.         *)
(***************************************************************************)
(* The claims of a receipt on record                                       *)

Owned(r) == {e \in row[r].input : claim[IdOf(e)].owner = r}

(* No request may carry this event any more.                               *)
Stale(e) == OccurredAt(e) + Window < now

(* While an event of a receipt may still be sent again, its id is claimed  *)
(* for it by the receipt itself or by a sealed one.                        *)
Held ==
  \A r \in Reservation : Live(r) =>
    \A e \in row[r].input :
      \/ Stale(e)
      \/ /\ claim[IdOf(e)].event = e
         /\ \/ claim[IdOf(e)].owner = r
            \/ /\ claim[IdOf(e)].owner \in Reservation
               /\ row[claim[IdOf(e)].owner].state = "sealed"

(* A claim is as old as the receipt that holds it.                         *)
ClaimsRecent ==
  \A i \in Id : claim[i].owner # None =>
    OccurredAt(claim[i].event) <= row[claim[i].owner].received + Skew

(* A sealed receipt accepted, and a request past its read of the claims    *)
(* owns, exactly what the receipt holds the claims of.                     *)
AcceptedExact ==
  \A r \in Reservation : row[r].state = "sealed" => row[r].accepted = Owned(r)
OwnedExact ==
  \A w \in Worker :
    (worker[w].pc \in {"put", "verify", "seal", "confirm"} /\ Live(worker[w].res))
      => worker[w].owned = Owned(worker[w].res)
PutNonEmpty ==
  \A w \in Worker : worker[w].pc \in {"put", "verify"} => worker[w].owned # {}

(* Only a sealed receipt is ever marked as deleted.                        *)
DeletedSealed ==
  \A r \in Reservation : row[r].deleted = 1 => row[r].state = "sealed"

Claims ==
  /\ Held /\ ClaimsRecent /\ AcceptedExact /\ OwnedExact /\ PutNonEmpty
  /\ DeletedSealed
-----------------------------------------------------------------------------
(* Who is alive when                                                       *)

Writing(w) == worker[w].pc \in {"reserved", "put", "verify", "seal", "confirm"}
Fencing(c) == cleaner[c].pc # "idle" /\ cleaner[c].phase = "fence"
Deleting(c) == cleaner[c].pc # "idle" /\ cleaner[c].phase = "delete"

Lives ==
  /\ \A w \in Worker : worker[w].pc # "idle" =>
       worker[w].started <= now /\ now <= worker[w].started + RunLife
  /\ \A c \in Cleaner : cleaner[c].pc # "idle" =>
       /\ cleaner[c].started <= now /\ now <= cleaner[c].started + RunLife
       /\ cleaner[c].key \in Reservation
       /\ Fencing(c) \/ Deleting(c)

(* A tombstone outlasts every request that may write the key, and every    *)
(* run that may fence it.                                                  *)
TombstoneLasts ==
  \A r \in Reservation : gc[r].phase = "delete" =>
    /\ \A w \in Worker : (Writing(w) /\ worker[w].res = r) =>
         worker[w].started + Tombstone <= gc[r].at
    /\ \A c \in Cleaner : (Fencing(c) /\ cleaner[c].key = r) =>
         cleaner[c].started + Tombstone <= gc[r].at + RunLife

(* A run that fences a key began after the requests that may write it.     *)
FenceAfter ==
  \A c \in Cleaner : Fencing(c) =>
    /\ gc[cleaner[c].key].phase \in {"fence", "delete"}
    /\ \A w \in Worker : (Writing(w) /\ worker[w].res = cleaner[c].key) =>
         worker[w].started <= cleaner[c].started

(* A run that deletes a key began a tombstone's life after all of them.    *)
DeleteAfter ==
  \A c \in Cleaner : Deleting(c) =>
    /\ gc[cleaner[c].key].phase \in {"delete", "none"}
    /\ gc[cleaner[c].key].phase = "delete" =>
         gc[cleaner[c].key].at <= cleaner[c].started
    /\ \A w \in Worker : (Writing(w) /\ worker[w].res = cleaner[c].key) =>
         worker[w].started + Tombstone <= cleaner[c].started
    /\ \A d \in Cleaner : (Fencing(d) /\ cleaner[d].key = cleaner[c].key) =>
         cleaner[d].started + Tombstone <= cleaner[c].started + RunLife

Times == Lives /\ TombstoneLasts /\ FenceAfter /\ DeleteAfter
-----------------------------------------------------------------------------
(* The objects                                                             *)

(* An object in use is there for events its receipt owns.                  *)
StoredOwned ==
  \A r \in Reservation :
    (Live(r) /\ row[r].deleted = 0 /\ object[r].kind # "absent") => Owned(r) # {}

(* A request that may still create the object of a retired receipt, or may *)
(* yet learn that it owns events of one, is waited for by product_object_gc*)
WriterAwaited ==
  \A w \in Worker :
    /\ (worker[w].pc = "put" /\ Retired(worker[w].res)) =>
         gc[worker[w].res].phase # "none"
    /\ (/\ worker[w].pc = "reserved"
        /\ row[worker[w].res].state = "sealed" /\ row[worker[w].res].deleted = 1
        /\ row[worker[w].res].accepted # {}) =>
         gc[worker[w].res].phase # "none"

(* What a run has done to the object is still so when it records it.       *)
CleanedSo ==
  \A c \in Cleaner : cleaner[c].pc = "row" =>
    object[cleaner[c].key].kind =
      IF cleaner[c].phase = "fence" THEN "fence" ELSE "absent"

(* A fenced key stays fenced until its tombstone is over.                  *)
Fenced ==
  \A r \in Reservation : gc[r].phase = "delete" =>
    \/ object[r].kind = "fence"
    \/ object[r].kind = "absent" /\ gc[r].at <= now

Stored == StoredOwned /\ WriterAwaited /\ CleanedSo /\ Fenced /\ NoOrphan

EInv == Claims /\ Times /\ Stored
-----------------------------------------------------------------------------
(* The claims of a receipt stay with it                                    *)

(* An event a live receipt holds is recent when it is sent again, so the   *)
(* reservation claims nothing new for a receipt that is already there.     *)
LEMMA ReserveClaims ==
  ASSUME IInv, Held, NEW w \in Worker, NEW b \in BatchId, NEW in \in Input,
         Reserve(w, b, in)
  PROVE  \E r \in Reservation \ Dead :
           /\ ReservedAs(w, b, in, r)
           /\ worker'[w].res = r
           /\ \A e \in in :
                /\ claim'[IdOf(e)].event = e
                /\ \/ claim'[IdOf(e)].owner = r
                   \/ /\ claim'[IdOf(e)].owner \in Reservation
                      /\ row[claim'[IdOf(e)].owner].state = "sealed"
           /\ \A i \in Id :
                (claim'[i] # claim[i] /\ claim'[i].owner # None) =>
                  ~Live(r) /\ claim'[i].owner = r /\ claim'[i].event \in in
           /\ \A e \in in : OccurredAt(e) <= now + Skew
<1>1. PICK r \in Reservation \ Dead : ReservedAs(w, b, in, r)
  BY ReserveEffect
<1>2. PICK q \in Reservation :
        /\ ClaimsAllowed(q, in)
        /\ claim' = [i \in Id |->
             IF \E e \in Fresh(in) : IdOf(e) = i
               THEN [owner |-> q, event |-> Version(in, i)]
               ELSE HeldClaim(i)]
        /\ worker' = [worker EXCEPT ![w] =
             [pc |-> IF row[q].state = "sealed" THEN "replay" ELSE "reserved",
              res |-> q, input |-> in, owned |-> {}, started |-> now]]
  BY DEF Reserve
<1>3. worker'[w].res = r /\ worker'[w].res = q
  BY <1>1, <1>2 DEF ReservedAs, IInv, TypeOK
<1>4. /\ in \subseteq Event /\ \A e, f \in in : IdOf(e) = IdOf(f) => e = f
      /\ \A e \in in : IdOf(e) \in Id /\ OccurredAt(e) \in Nat
  BY EventAssumption
<1>5. \A e \in in : now - Window <= OccurredAt(e) /\ OccurredAt(e) <= now + Skew
  BY DEF Reserve, ValidTimes
<1>6. \A e \in in : ~Stale(e)
  BY <1>4, <1>5, TimeAssumption DEF Stale, IInv, TypeOK
<1>7. ASSUME NEW e \in in, e \in Fresh(in)
      PROVE  claim'[IdOf(e)] = [owner |-> r, event |-> e]
  <2>1. \E f \in in : IdOf(f) = IdOf(e)
    OBVIOUS
  <2>2. Version(in, IdOf(e)) \in in /\ IdOf(Version(in, IdOf(e))) = IdOf(e)
    BY <2>1, VersionChosen
  <2>3. Version(in, IdOf(e)) = e
    BY <1>4, <2>2
  <2> QED
    BY <1>2, <1>3, <1>4, <1>7, <2>3
<1>8. ASSUME NEW e \in in, e \notin Fresh(in)
      PROVE  /\ claim'[IdOf(e)] = claim[IdOf(e)] /\ claim[IdOf(e)].event = e
             /\ claim[IdOf(e)].owner \in Reservation
             /\ \/ claim[IdOf(e)].owner = r
                \/ row[claim[IdOf(e)].owner].state = "sealed"
  <2> DEFINE c == claim[IdOf(e)]
  <2>1. HeldClaim(IdOf(e)).owner # None
    BY <1>8 DEF Fresh
  <2>2. HeldClaim(IdOf(e)) = c /\ c.owner \notin Dead /\ c.owner # None
    BY <2>1 DEF HeldClaim, NoClaim
  <2>3. c.event = e /\ (c.owner # r => row[c.owner].state # "pending")
    BY <1>2, <1>3, <2>1, <2>2 DEF ClaimsAllowed
  <2>4. Live(c.owner) /\ c.owner \in Reservation
    BY <1>4, <2>2 DEF IInv, Tables, ClaimsBacked, TypeOK, ClaimType
  <2>5. claim'[IdOf(e)] = c
    BY <1>1, <1>4, <2>2 DEF ReservedAs
  <2> QED
    BY <2>3, <2>4, <2>5 DEF Live
<1>9. Live(r) => Fresh(in) = {}
  <2> SUFFICES ASSUME Live(r), NEW e \in Fresh(in) PROVE FALSE
    OBVIOUS
  <2>1. e \in in /\ e \in row[r].input
    BY <1>1 DEF Fresh, ReservedAs
  <2>2. \/ claim[IdOf(e)].owner = r
        \/ /\ claim[IdOf(e)].owner \in Reservation
           /\ row[claim[IdOf(e)].owner].state = "sealed"
    BY <1>6, <2>1 DEF Held
  <2>3. claim[IdOf(e)].owner \in Reservation \ Dead
    BY <2>2 DEF Dead, Expired
  <2>4. HeldClaim(IdOf(e)).owner # None
    BY <2>3, EventAssumption DEF HeldClaim
  <2> QED
    BY <2>4 DEF Fresh
<1>10. ASSUME NEW i \in Id, claim'[i] # claim[i], claim'[i].owner # None
       PROVE  ~Live(r) /\ claim'[i].owner = r /\ claim'[i].event \in in
  <2>1. PICK e \in Fresh(in) : IdOf(e) = i
    BY <1>2, <1>10 DEF HeldClaim, NoClaim
  <2>2. e \in in /\ claim'[IdOf(e)] = [owner |-> r, event |-> e]
    BY <1>7 DEF Fresh
  <2> QED
    BY <1>9, <2>1, <2>2
<1>11. ASSUME NEW e \in in
       PROVE  /\ claim'[IdOf(e)].event = e
              /\ \/ claim'[IdOf(e)].owner = r
                 \/ /\ claim'[IdOf(e)].owner \in Reservation
                    /\ row[claim'[IdOf(e)].owner].state = "sealed"
  <2>1. CASE e \in Fresh(in)
    <3>1. claim'[IdOf(e)] = [owner |-> r, event |-> e]
      BY <1>7, <2>1
    <3> QED
      BY <3>1
  <2>2. CASE e \notin Fresh(in)
    BY <1>8, <2>2
  <2> QED
    BY <2>1, <2>2
<1> QED
  BY <1>1, <1>3, <1>5, <1>10, <1>11

(* Which events a receipt holds the claims of does not change under it.    *)
LEMMA OwnedKept ==
  ASSUME IInv, Held, NEW w \in Worker, NEW b \in BatchId, NEW in \in Input,
         Reserve(w, b, in), NEW q \in Reservation, Live(q), Live(q)'
  PROVE  row'[q] = row[q] /\ Owned(q)' = Owned(q)
<1>1. PICK r \in Reservation \ Dead :
        /\ ReservedAs(w, b, in, r)
        /\ \A i \in Id :
             (claim'[i] # claim[i] /\ claim'[i].owner # None) =>
               ~Live(r) /\ claim'[i].owner = r /\ claim'[i].event \in in
  BY ReserveClaims
<1>2. q \notin Dead
  BY <1>1 DEF ReservedAs, Live, GoneRow, FreeRow
<1>3. row'[q] = row[q] /\ q # None
  BY <1>1, <1>2, EventAssumption DEF ReservedAs
<1>4. \A e \in row[q].input : IdOf(e) \in Id
  BY EventAssumption DEF IInv, TypeOK, RowType
<1>5. \A e \in row[q].input :
        claim'[IdOf(e)].owner = q <=> claim[IdOf(e)].owner = q
  BY <1>1, <1>2, <1>3, <1>4 DEF ReservedAs
<1> QED
  BY <1>3, <1>5 DEF Owned

(* Reserving keeps the claims as they must be.                             *)
LEMMA ClaimsReserve ==
  ASSUME IInv, Claims, NEW w \in Worker, NEW b \in BatchId, NEW in \in Input,
         Reserve(w, b, in)
  PROVE  Claims'
<1>0. Held
  BY DEF Claims
<1>1. PICK r \in Reservation \ Dead :
        /\ ReservedAs(w, b, in, r)
        /\ worker'[w].res = r
        /\ \A e \in in :
             /\ claim'[IdOf(e)].event = e
             /\ \/ claim'[IdOf(e)].owner = r
                \/ /\ claim'[IdOf(e)].owner \in Reservation
                   /\ row[claim'[IdOf(e)].owner].state = "sealed"
        /\ \A i \in Id :
             (claim'[i] # claim[i] /\ claim'[i].owner # None) =>
               ~Live(r) /\ claim'[i].owner = r /\ claim'[i].event \in in
        /\ \A e \in in : OccurredAt(e) <= now + Skew
  BY <1>0, ReserveClaims
<1>2. UNCHANGED now
  BY DEF Reserve
<1>3. /\ \A q \in Dead : row[q].state = "pending" /\ row'[q].state = "gone"
                         /\ row'[q].deleted = 0
      /\ Live(r) => row[r].input = in
      /\ ~Live(r) => /\ row[r].state = "free" /\ row'[r].state = "pending"
                     /\ row'[r].received = now /\ row'[r].input = in
                     /\ row'[r].deleted = 0
      /\ \A q \in Reservation \ Dead : (q # r \/ Live(r)) => row'[q] = row[q]
      /\ \A i \in Id : (claim[i].owner # None /\ claim[i].owner \notin Dead) =>
                         claim'[i] = claim[i]
      /\ \A i \in Id :
           \/ claim'[i] = claim[i] /\ claim[i].owner \notin Dead
           \/ claim'[i] = NoClaim
           \/ claim'[i].owner = r /\ claim'[i].event \in in
  BY <1>1 DEF ReservedAs, GoneRow, FreeRow, NewRow
<1>4. \A q \in Reservation : row[q].state = "sealed" => row'[q] = row[q]
  BY <1>3 DEF Live
<1>5. /\ \A v \in Worker : v # w => worker'[v] = worker[v]
      /\ worker'[w].pc \in {"replay", "reserved"}
  BY <1>1 DEF ReservedAs, IInv, TypeOK
<1>6. \A e \in Event : IdOf(e) \in Id /\ OccurredAt(e) \in Nat
  BY EventAssumption
<1>7. Held'
  <2> SUFFICES ASSUME NEW q \in Reservation, Live(q)',
                      NEW e \in row'[q].input, ~Stale(e)
               PROVE  /\ claim'[IdOf(e)].event = e
                      /\ \/ claim'[IdOf(e)].owner = q
                         \/ /\ claim'[IdOf(e)].owner \in Reservation
                            /\ row'[claim'[IdOf(e)].owner].state = "sealed"
    BY <1>2 DEF Held, Stale
  <2>1. CASE q = r
    <3>1. e \in in
      BY <1>3, <2>1
    <3> QED
      BY <1>1, <1>4, <2>1, <3>1
  <2>2. CASE q # r
    <3>1. q \notin Dead /\ row'[q] = row[q] /\ q # None
      BY <1>3, <2>2, EventAssumption DEF Live
    <3>2. e \in row[q].input /\ Live(q) /\ IdOf(e) \in Id
      BY <1>6, <3>1 DEF Live, IInv, TypeOK, RowType
    <3>3. /\ claim[IdOf(e)].event = e
          /\ \/ claim[IdOf(e)].owner = q
             \/ /\ claim[IdOf(e)].owner \in Reservation
                /\ row[claim[IdOf(e)].owner].state = "sealed"
      BY <1>0, <3>2 DEF Held
    <3>4. claim[IdOf(e)].owner \notin Dead /\ claim[IdOf(e)].owner # None
      BY <3>1, <3>3, EventAssumption DEF Dead, Expired
    <3> QED
      BY <1>3, <1>4, <3>2, <3>3, <3>4
  <2> QED
    BY <2>1, <2>2
<1>8. ClaimsRecent'
  <2> SUFFICES ASSUME NEW i \in Id, claim'[i].owner # None
               PROVE  OccurredAt(claim'[i].event)
                        <= row'[claim'[i].owner].received + Skew
    BY DEF ClaimsRecent
  <2>1. CASE claim'[i] = claim[i]
    <3>1. Live(claim[i].owner) /\ claim[i].owner \in Reservation
      BY <2>1 DEF IInv, Tables, ClaimsBacked, TypeOK, ClaimType
    <3>2. claim[i].owner \notin Dead
      BY <1>3, <2>1, EventAssumption DEF NoClaim
    <3>3. row'[claim[i].owner] = row[claim[i].owner]
      BY <1>3, <3>1, <3>2
    <3> QED
      BY <2>1, <3>3 DEF Claims, ClaimsRecent
  <2>2. CASE claim'[i] # claim[i]
    BY <1>1, <1>3, <2>2
  <2> QED
    BY <2>1, <2>2
<1>9. AcceptedExact'
  <2> SUFFICES ASSUME NEW q \in Reservation, row'[q].state = "sealed"
               PROVE  row'[q].accepted = Owned(q)'
    BY DEF AcceptedExact
  <2>1. row[q].state = "sealed"
    BY <1>3 DEF Live
  <2>2. row'[q] = row[q] /\ Owned(q)' = Owned(q)
    BY <1>0, <2>1, OwnedKept DEF Live
  <2> QED
    BY <2>1, <2>2 DEF Claims, AcceptedExact
<1>10. OwnedExact'
  <2> SUFFICES ASSUME NEW v \in Worker,
                      worker'[v].pc \in {"put", "verify", "seal", "confirm"},
                      Live(worker[v].res)'
               PROVE  worker'[v].owned = Owned(worker[v].res)'
    BY DEF OwnedExact
  <2>1. worker'[v] = worker[v]
    BY <1>5
  <2>2. worker[v].res \in Reservation /\ row[worker[v].res].state # "free"
    BY <2>1 DEF IInv, Requests, WorkerBatch
  <2>3. Live(worker[v].res)
    BY <1>3, <2>1, <2>2 DEF Live
  <2>4. Owned(worker[v].res)' = Owned(worker[v].res)
    <3>1. ASSUME NEW q \in Reservation, q = worker[v].res PROVE Owned(q)' = Owned(q)
      BY <1>0, <2>1, <2>3, <3>1, OwnedKept DEF Live
    <3> QED
      BY <2>1, <2>2, <3>1 DEF Owned
  <2> QED
    BY <2>1, <2>3, <2>4 DEF Claims, OwnedExact, Owned
<1>11. PutNonEmpty'
  BY <1>5 DEF Claims, PutNonEmpty
<1>12. DeletedSealed'
  BY <1>3 DEF Claims, DeletedSealed
<1> QED
  BY <1>7, <1>8, <1>9, <1>10, <1>11, <1>12 DEF Claims

(* The steps of a request after its reservation: they read the claims, and *)
(* a seal records as accepted exactly what the receipt holds.              *)
LEMMA ClaimsRequest ==
  ASSUME IInv, Claims, NEW w \in Worker, Request(w)
  PROVE  Claims'
<1>1. ASSUME NEW b \in BatchId, NEW in \in Input, Reserve(w, b, in)
      PROVE  Claims'
  BY <1>1, ClaimsReserve
<1>2. CASE ReadOwned(w)
  <2> DEFINE owned == {e \in worker[w].input :
                         claim[IdOf(e)].owner = worker[w].res}
  <2>1. UNCHANGED <<now, row, claim>>
    BY <1>2 DEF ReadOwned, database
  <2>2. /\ worker[w].pc = "reserved"
        /\ worker' = [worker EXCEPT ![w].owned = owned,
                       ![w].pc = IF owned = {} THEN "seal" ELSE "put"]
    BY <1>2 DEF ReadOwned
  <2>3. /\ worker'[w].owned = owned /\ worker'[w].res = worker[w].res
        /\ worker'[w].pc = IF owned = {} THEN "seal" ELSE "put"
        /\ \A v \in Worker : v # w => worker'[v] = worker[v]
    BY <2>2 DEF IInv, TypeOK, WorkerType
  <2>4. Live(worker[w].res) => owned = Owned(worker[w].res)
    BY <2>2 DEF IInv, Requests, WorkerBatch, Owned
  <2> HIDE DEF owned
  <2>5. OwnedExact'
    BY <2>1, <2>3, <2>4 DEF Claims, OwnedExact, Owned, Live
  <2>6. PutNonEmpty'
    BY <2>3 DEF Claims, PutNonEmpty
  <2> QED
    BY <2>1, <2>5, <2>6 DEF Claims, Held, ClaimsRecent, AcceptedExact, Owned,
                            DeletedSealed, Live, Stale
<1>3. CASE Seal(w) /\ Sealable(w)
  <2> DEFINE r == worker[w].res
  <2>1. /\ UNCHANGED <<now, claim>>
        /\ row' = [row EXCEPT ![r].state = "sealed",
                              ![r].accepted = worker[w].owned]
        /\ worker' = [worker EXCEPT ![w] = IdleWorker]
        /\ worker[w].pc = "seal" /\ row[r].state = "pending"
    BY <1>3 DEF Seal, Sealable
  <2>2. r \in Reservation
    BY <2>1 DEF IInv, Requests, WorkerBatch
  <2>3. /\ row'[r].state = "sealed" /\ row'[r].accepted = worker[w].owned
        /\ row'[r].input = row[r].input /\ row'[r].received = row[r].received
        /\ row'[r].deleted = row[r].deleted
        /\ \A q \in Reservation : q # r => row'[q] = row[q]
    BY <2>1, <2>2 DEF IInv, TypeOK, RowType
  <2>4. \A v \in Worker : worker'[v] = worker[v] \/ worker'[v].pc = "idle"
    BY <2>1 DEF IInv, TypeOK, IdleWorker
  <2>5. worker[w].owned = Owned(r)
    BY <2>1 DEF Claims, OwnedExact, Live
  <2>6. \A q \in Reservation : Owned(q)' = Owned(q) /\ (Live(q)' <=> Live(q))
    BY <2>1, <2>3 DEF Owned, Live
  <2> HIDE DEF r
  <2>7. Held'
    <3>0. UNCHANGED <<now, claim>>
      BY <2>1
    <3> SUFFICES ASSUME NEW q \in Reservation, Live(q)', NEW e \in row'[q].input,
                        ~Stale(e)
                 PROVE  /\ claim[IdOf(e)].event = e
                        /\ \/ claim[IdOf(e)].owner = q
                           \/ /\ claim[IdOf(e)].owner \in Reservation
                              /\ row'[claim[IdOf(e)].owner].state = "sealed"
      BY <3>0 DEF Held, Stale
    <3>1. Live(q) /\ e \in row[q].input
      BY <2>3, <2>6
    <3>2. \A p \in Reservation :
            row[p].state = "sealed" => row'[p].state = "sealed"
      BY <2>3
    <3> QED
      BY <3>1, <3>2 DEF Claims, Held
  <2>8. ClaimsRecent'
    BY <2>1, <2>3 DEF Claims, ClaimsRecent, IInv, TypeOK, ClaimType
  <2>9. AcceptedExact'
    <3> SUFFICES ASSUME NEW q \in Reservation, row'[q].state = "sealed"
                 PROVE  row'[q].accepted = Owned(q)'
      BY DEF AcceptedExact
    <3> QED
      BY <2>3, <2>5, <2>6 DEF r, Claims, AcceptedExact
  <2>10. OwnedExact'
    <3> SUFFICES ASSUME NEW v \in Worker,
                        worker'[v].pc \in {"put", "verify", "seal", "confirm"},
                        Live(worker[v].res)'
                 PROVE  worker'[v].owned = Owned(worker[v].res)'
      BY DEF OwnedExact
    <3>1. worker'[v] = worker[v] /\ worker[v].res \in Reservation
      BY <2>4 DEF IInv, Requests, WorkerBatch
    <3>2. /\ row'[worker[v].res].input = row[worker[v].res].input
          /\ Live(worker[v].res)
      BY <2>1, <2>3, <3>1 DEF Live, r
    <3> QED
      BY <2>1, <3>1, <3>2 DEF Claims, OwnedExact, Owned
  <2>11. PutNonEmpty'
    BY <2>4 DEF Claims, PutNonEmpty
  <2>12. DeletedSealed'
    BY <2>3 DEF Claims, DeletedSealed
  <2> QED
    BY <2>7, <2>8, <2>9, <2>10, <2>11, <2>12 DEF Claims
<1>4. CASE \/ ReplySealed(w) \/ PutObject(w) \/ VerifyObject(w)
           \/ (Seal(w) /\ ~Sealable(w)) \/ Confirm(w) \/ Abandon(w)
  <2>1. UNCHANGED <<now, row, claim>>
    BY <1>4 DEF ReplySealed, PutObject, VerifyObject, Seal, Confirm, Abandon,
                database
  <2>2. \/ worker' = [worker EXCEPT ![w] = IdleWorker]
        \/ /\ worker[w].pc \in {"put", "verify", "seal"}
           /\ \E p \in {"seal", "confirm"} : worker' = [worker EXCEPT ![w].pc = p]
        \/ /\ worker[w].pc = "put"
           /\ worker' = [worker EXCEPT ![w].pc = "verify"]
    BY <1>4 DEF ReplySealed, PutObject, VerifyObject, Seal, Confirm, Abandon
  <2>3. \A v \in Worker :
          \/ worker'[v] = worker[v]
          \/ worker'[v].pc = "idle"
          \/ /\ worker[v].pc \in {"put", "verify", "seal"}
             /\ worker'[v].pc \in {"verify", "seal", "confirm"}
             /\ worker'[v].pc = "verify" => worker[v].pc = "put"
             /\ worker'[v].res = worker[v].res
             /\ worker'[v].owned = worker[v].owned
    BY <2>2 DEF IInv, TypeOK, WorkerType, IdleWorker
  <2>4. OwnedExact'
    BY <2>1, <2>3 DEF Claims, OwnedExact, Owned, Live
  <2>5. PutNonEmpty'
    BY <2>3 DEF Claims, PutNonEmpty
  <2> QED
    BY <2>1, <2>4, <2>5 DEF Claims, Held, ClaimsRecent, AcceptedExact, Owned,
                            DeletedSealed, Live, Stale
<1> QED
  BY <1>1, <1>2, <1>3, <1>4 DEF Request

(* What retiring does to a receipt and to its claims.                      *)
LEMMA RetireEffect ==
  ASSUME IInv, NEW r \in Reservation, RetireReceipt(r)
  PROVE  /\ Due(r) /\ Live(r)
         /\ \A q \in Reservation : q # r => row'[q] = row[q] /\ gc'[q] = gc[q]
         /\ \/ /\ Forgotten(r)
               /\ row'[r] = GoneRow
               /\ \A i \in Id : claim'[i] =
                    IF claim[i].owner = r THEN NoClaim ELSE claim[i]
            \/ /\ row[r].state = "sealed" /\ RawDue(r)
               /\ row' = [row EXCEPT ![r].deleted = 1]
               /\ claim' = claim
         /\ gc'[r] = IF RawDue(r) /\ row[r].deleted = 0 /\ row[r].accepted # {}
                       THEN RetiredGc(r)
                     ELSE IF Expired(r) THEN PendingGc(r) ELSE gc[r]
<1>1. Due(r) /\ Live(r)
  BY DEF RetireReceipt, Due, Expired, RawDue, IdentityDue, Live
<1>2. IdentityDue(r) => RawDue(r)
  BY TimeAssumption DEF IdentityDue, RawDue, IInv, TypeOK, RowType
<1>3. \A q \in Reservation : q # r => row'[q] = row[q] /\ gc'[q] = gc[q]
  BY DEF RetireReceipt, IInv, TypeOK
<1>4. CASE Forgotten(r)
  <2>1. /\ claim' = [i \in Id |-> IF claim[i].owner = r THEN NoClaim ELSE claim[i]]
        /\ row' = [row EXCEPT ![r] = GoneRow]
    BY <1>4 DEF RetireReceipt
  <2>2. row'[r] = GoneRow
    BY <2>1 DEF IInv, TypeOK
  <2>3. \A i \in Id : claim'[i] = IF claim[i].owner = r THEN NoClaim ELSE claim[i]
    BY <2>1
  <2> QED
    BY <1>1, <1>3, <1>4, <2>2, <2>3 DEF RetireReceipt, IInv, TypeOK
<1>5. CASE ~Forgotten(r)
  <2>1. row[r].state = "sealed" /\ RawDue(r)
    BY <1>1, <1>2, <1>5 DEF Due, Forgotten, RawDue
  <2> QED
    BY <1>1, <1>3, <1>5, <2>1 DEF RetireReceipt, IInv, TypeOK
<1> QED
  BY <1>4, <1>5

(* Retiring gives up no claim that could be needed again.                  *)
LEMMA ClaimsRetire ==
  ASSUME IInv, Claims, NEW r \in Reservation, RetireReceipt(r)
  PROVE  Claims'
<1>1. /\ \A q \in Reservation : q # r => row'[q] = row[q]
      /\ \/ /\ Forgotten(r)
            /\ row'[r] = GoneRow
            /\ \A i \in Id : claim'[i] =
                 IF claim[i].owner = r THEN NoClaim ELSE claim[i]
         \/ /\ row[r].state = "sealed"
            /\ row' = [row EXCEPT ![r].deleted = 1]
            /\ claim' = claim
  BY RetireEffect
<1>2. UNCHANGED <<now, worker>>
  BY DEF RetireReceipt
<1>3. \A e \in Event : IdOf(e) \in Id /\ OccurredAt(e) \in Nat
  BY EventAssumption
<1>4. /\ \A i \in Id : claim[i].owner # r => claim'[i] = claim[i]
      /\ \A i \in Id : claim'[i] = claim[i] \/ claim'[i] = NoClaim
  BY <1>1
<1>5. r # None
  BY EventAssumption
<1>6. \/ row'[r].state = "gone" /\ row'[r].deleted = 0 /\ Forgotten(r)
      \/ /\ row'[r].state = "sealed" /\ row[r].state = "sealed"
         /\ row'[r].accepted = row[r].accepted /\ row'[r].input = row[r].input
         /\ row'[r].received = row[r].received
         /\ claim' = claim
  BY <1>1 DEF GoneRow, FreeRow, IInv, TypeOK, RowType
<1>7. ASSUME NEW q \in Reservation, Live(q)'
      PROVE  /\ Owned(q)' = Owned(q) /\ Live(q)
             /\ row'[q].accepted = row[q].accepted
             /\ row'[q].input = row[q].input
             /\ row'[q].state = row[q].state
  <2>1. CASE q = r
    BY <1>6, <1>7, <2>1 DEF Owned, Live
  <2>2. CASE q # r
    <3>1. row'[q] = row[q]
      BY <1>1, <2>2
    <3>2. \A e \in row[q].input : IdOf(e) \in Id
      BY <1>3 DEF IInv, TypeOK, RowType
    <3>3. \A e \in row[q].input :
            claim'[IdOf(e)].owner = q <=> claim[IdOf(e)].owner = q
      BY <1>1, <1>5, <2>2, <3>2, EventAssumption DEF NoClaim
    <3> QED
      BY <1>7, <3>1, <3>3 DEF Owned, Live
  <2> QED
    BY <2>1, <2>2
<1>8. Held'
  <2> SUFFICES ASSUME NEW q \in Reservation, Live(q)', NEW e \in row'[q].input,
                      ~Stale(e)
               PROVE  /\ claim'[IdOf(e)].event = e
                      /\ \/ claim'[IdOf(e)].owner = q
                         \/ /\ claim'[IdOf(e)].owner \in Reservation
                            /\ row'[claim'[IdOf(e)].owner].state = "sealed"
    BY <1>2 DEF Held, Stale
  <2>1. e \in row[q].input /\ Live(q)
    BY <1>7
  <2>2. /\ claim[IdOf(e)].event = e
        /\ \/ claim[IdOf(e)].owner = q
           \/ /\ claim[IdOf(e)].owner \in Reservation
              /\ row[claim[IdOf(e)].owner].state = "sealed"
    BY <2>1 DEF Claims, Held
  <2>3. IdOf(e) \in Id /\ OccurredAt(e) \in Nat
    BY <1>3, <2>1 DEF IInv, TypeOK, RowType
  <2>4. CASE row'[r].state = "gone"
    <3>1. q # r
      BY <2>4 DEF Live
    <3>2. claim[IdOf(e)].owner # r
      <4> SUFFICES ASSUME claim[IdOf(e)].owner = r PROVE FALSE
        OBVIOUS
      <4>1. IdentityDue(r)
        BY <1>6, <2>2, <2>4, <3>1 DEF Forgotten, Expired
      <4>2. OccurredAt(e) <= row[r].received + Skew
        BY <1>5, <2>2, <2>3 DEF Claims, ClaimsRecent
      <4>3. row[r].received \in Nat
        BY <4>1, TimeAssumption DEF IdentityDue, IInv, TypeOK, RowType
      <4>4. OccurredAt(e) + Window < now
        BY <2>3, <4>1, <4>2, <4>3, TimeAssumption DEF IdentityDue, IInv, TypeOK
      <4> QED
        BY <4>4 DEF Stale
    <3> QED
      BY <1>1, <1>4, <2>2, <2>3, <3>2
  <2>5. CASE row'[r].state # "gone"
    <3>1. claim' = claim /\ row'[r].state = "sealed"
      BY <1>6, <2>5
    <3> QED
      BY <1>1, <2>2, <3>1
  <2> QED
    BY <2>4, <2>5
<1>9. ClaimsRecent'
  <2> SUFFICES ASSUME NEW i \in Id, claim'[i].owner # None
               PROVE  OccurredAt(claim'[i].event)
                        <= row'[claim'[i].owner].received + Skew
    BY DEF ClaimsRecent
  <2>1. claim'[i] = claim[i] /\ claim[i].owner \in Reservation
    BY <1>4 DEF NoClaim, IInv, TypeOK, ClaimType
  <2>2. row'[claim[i].owner].received = row[claim[i].owner].received
    <3>1. CASE claim[i].owner = r
      <4>1. row'[r].state # "gone"
        BY <1>1, <1>5, <2>1, <3>1 DEF NoClaim, IInv, TypeOK, RowType
      <4> QED
        BY <1>6, <3>1, <4>1
    <3>2. CASE claim[i].owner # r
      BY <1>1, <2>1, <3>2
    <3> QED
      BY <3>1, <3>2
  <2> QED
    BY <2>1, <2>2 DEF Claims, ClaimsRecent
<1>10. AcceptedExact'
  <2> SUFFICES ASSUME NEW q \in Reservation, row'[q].state = "sealed"
               PROVE  row'[q].accepted = Owned(q)'
    BY DEF AcceptedExact
  <2> QED
    BY <1>7 DEF Claims, AcceptedExact, Live
<1>11. OwnedExact'
  <2> SUFFICES ASSUME NEW v \in Worker,
                      worker[v].pc \in {"put", "verify", "seal", "confirm"},
                      Live(worker[v].res)'
               PROVE  worker[v].owned = Owned(worker[v].res)'
    BY <1>2 DEF OwnedExact, Owned, Live
  <2>1. worker[v].res \in Reservation
    BY DEF IInv, Requests, WorkerBatch
  <2>2. PICK q \in Reservation : q = worker[v].res
    BY <2>1
  <2>3. Live(q)'
    BY <1>2, <2>2 DEF Live
  <2>4. Owned(q)' = Owned(q) /\ Live(q)
    BY <1>7, <2>3
  <2> QED
    BY <1>2, <2>2, <2>4 DEF Claims, OwnedExact, Owned
<1>12. PutNonEmpty'
  BY <1>2 DEF Claims, PutNonEmpty
<1>13. DeletedSealed'
  BY <1>1, <1>6 DEF Claims, DeletedSealed
<1> QED
  BY <1>8, <1>9, <1>10, <1>11, <1>12, <1>13 DEF Claims

(* Every step keeps the claims with their receipts.                        *)
LEMMA ClaimsStep ==
  ASSUME IInv, Claims, [Next]_vars
  PROVE  Claims'
<1>1. CASE \E w \in Worker : Request(w)
  BY <1>1, ClaimsRequest
<1>2. CASE \E r \in Reservation : RetireReceipt(r)
  BY <1>2, ClaimsRetire
<1>3. CASE (\E c \in Cleaner : Clean(c)) \/ Tick \/ UNCHANGED vars
  <2>1. UNCHANGED <<row, claim, worker>> /\ (now' = now \/ now' = now + 1)
    <3>1. CASE \E c \in Cleaner : Clean(c)
      BY <3>1 DEF Clean, PickGarbage, CleanObject, CleanRow, StopCleaner, database
    <3>2. CASE Tick \/ UNCHANGED vars
      BY <3>2 DEF Tick, vars, database
    <3> QED
      BY <1>3, <3>1, <3>2
  <2>2. \A e \in Event : Stale(e) => Stale(e)'
    BY <2>1, EventAssumption, TimeAssumption DEF Stale, IInv, TypeOK
  <2>3. Held'
    <3>1. \A q \in Reservation : row[q].input \subseteq Event
      BY DEF IInv, TypeOK, RowType
    <3> QED
      BY <2>1, <2>2, <3>1 DEF Claims, Held, Live
  <2> QED
    BY <2>1, <2>3 DEF Claims, ClaimsRecent, AcceptedExact, OwnedExact, Owned,
                      PutNonEmpty, DeletedSealed, Live
<1> QED
  BY <1>1, <1>2, <1>3 DEF Next
-----------------------------------------------------------------------------
(* Who is alive when                                                       *)

(* A run that fences a key and one that deletes it never overlap.          *)
LEMMA Apart ==
  ASSUME IInv, Times, NEW c \in Cleaner, NEW d \in Cleaner,
         Fencing(c), Deleting(d)
  PROVE  cleaner[c].key # cleaner[d].key
<1> SUFFICES ASSUME cleaner[c].key = cleaner[d].key PROVE FALSE
  OBVIOUS
<1>1. cleaner[c].started + Tombstone <= cleaner[d].started + RunLife
  BY DEF Times, DeleteAfter
<1>2. /\ cleaner[d].started <= now
      /\ now <= cleaner[c].started + RunLife
  BY DEF Times, Lives, Fencing, Deleting
<1>3. now \in Nat /\ cleaner[c].started \in Nat /\ cleaner[d].started \in Nat
  BY DEF IInv, TypeOK, CleanerType
<1> QED
  BY <1>1, <1>2, <1>3, TimeAssumption

(* No request that may still write a key is alive when it is deleted.      *)
LEMMA NoWriterLeft ==
  ASSUME IInv, Times, NEW w \in Worker, Writing(w)
  PROVE  /\ \A d \in Cleaner : Deleting(d) => worker[w].res # cleaner[d].key
         /\ gc[worker[w].res].phase = "delete" => gc[worker[w].res].at > now
<1>1. now \in Nat /\ worker[w].started \in Nat /\ worker[w].res \in Reservation
  BY DEF IInv, TypeOK, WorkerType, Writing, Requests, WorkerBatch
<1>2. now <= worker[w].started + RunLife
  BY DEF Times, Lives, Writing
<1>3. ASSUME NEW d \in Cleaner, Deleting(d), worker[w].res = cleaner[d].key
      PROVE  FALSE
  <2>1. worker[w].started + Tombstone <= cleaner[d].started
    BY <1>3 DEF Times, DeleteAfter
  <2>2. cleaner[d].started <= now /\ cleaner[d].started \in Nat
    BY <1>3 DEF Times, Lives, Deleting, IInv, TypeOK, CleanerType
  <2> QED
    BY <1>1, <1>2, <2>1, <2>2, TimeAssumption
<1>4. ASSUME gc[worker[w].res].phase = "delete"
      PROVE  gc[worker[w].res].at > now
  <2>1. worker[w].started + Tombstone <= gc[worker[w].res].at
    BY <1>1, <1>4 DEF Times, TombstoneLasts
  <2>2. gc[worker[w].res].at \in Nat
    BY <1>1 DEF IInv, TypeOK
  <2> QED
    BY <1>1, <1>2, <2>1, <2>2, TimeAssumption
<1> QED
  BY <1>3, <1>4

(* The bounds on lives survive a step of one request that already runs.    *)
LEMMA TimesFrame ==
  ASSUME IInv, Times, UNCHANGED <<now, gc, cleaner>>,
         \A v \in Worker : worker'[v].pc # "idle" =>
           /\ worker[v].pc # "idle"
           /\ worker'[v].started = worker[v].started
           /\ worker'[v].res = worker[v].res
           /\ Writing(v)' => Writing(v)
  PROVE  Times'
<1>1. \A v \in Worker : Writing(v)' =>
        /\ Writing(v) /\ worker'[v].started = worker[v].started
        /\ worker'[v].res = worker[v].res
  BY DEF Writing
<1>2. \A c \in Cleaner : (Fencing(c)' <=> Fencing(c)) /\ (Deleting(c)' <=> Deleting(c))
  BY DEF Fencing, Deleting
<1>3. Lives'
  BY <1>2 DEF Times, Lives
<1>4. TombstoneLasts'
  BY <1>1, <1>2 DEF Times, TombstoneLasts
<1>5. FenceAfter'
  BY <1>1, <1>2 DEF Times, FenceAfter
<1>6. DeleteAfter'
  BY <1>1, <1>2 DEF Times, DeleteAfter
<1> QED
  BY <1>3, <1>4, <1>5, <1>6 DEF Times

(* A request that reserves may write a key only if nothing cleans it.      *)
LEMMA TimesReserve ==
  ASSUME IInv, Times, NEW w \in Worker, NEW b \in BatchId, NEW in \in Input,
         Reserve(w, b, in)
  PROVE  Times'
<1>1. PICK r \in Reservation \ Dead : ReservedAs(w, b, in, r)
  BY ReserveEffect
<1>2. UNCHANGED <<now, cleaner>>
  BY DEF Reserve
<1>3. /\ worker'[w] = [pc |-> IF row[r].state = "sealed" THEN "replay" ELSE "reserved",
                       res |-> r, input |-> in, owned |-> {}, started |-> now]
      /\ \A v \in Worker : v # w => worker'[v] = worker[v]
  BY <1>1 DEF ReservedAs, IInv, TypeOK
<1>4. Writing(w)' => /\ worker'[w].res = r /\ worker'[w].started = now
                     /\ ~Retired(r) /\ gc[r].phase = "none"
                     /\ \A c \in Cleaner : cleaner[c].pc # "idle" => cleaner[c].key # r
  <2>1. Writing(w)' => row[r].state # "sealed"
    BY <1>3 DEF Writing
  <2>2. row[r].state # "sealed" => ~Retired(r)
    BY <1>1 DEF ReservedAs, Retired, Live
  <2> QED
    BY <1>3, <2>1, <2>2 DEF IInv, Objects, GarbageRetired
<1>5. \A q \in Reservation :
        \/ gc'[q] = gc[q]
        \/ /\ gc'[q].phase = "fence" /\ gc[q].phase = "none"
           /\ \A c \in Cleaner : cleaner[c].pc # "idle" => cleaner[c].key # q
  <2> SUFFICES ASSUME NEW q \in Dead, q \in Reservation
               PROVE  /\ gc'[q].phase = "fence" /\ gc[q].phase = "none"
                      /\ \A c \in Cleaner : cleaner[c].pc # "idle" => cleaner[c].key # q
    BY <1>1 DEF ReservedAs
  <2>1. ~Retired(q)
    BY DEF Dead, Expired, Retired
  <2>2. gc[q].phase = "none"
    BY <2>1 DEF IInv, Objects, GarbageRetired
  <2> QED
    BY <1>1, <2>1, <2>2 DEF ReservedAs, PendingGc, IInv, Objects, GarbageRetired
<1>6. \A c \in Cleaner : (Fencing(c)' <=> Fencing(c)) /\ (Deleting(c)' <=> Deleting(c))
  BY <1>2 DEF Fencing, Deleting
<1>7. \A v \in Worker : (Writing(v)' /\ v # w) =>
        /\ Writing(v) /\ worker'[v] = worker[v]
  BY <1>3 DEF Writing
<1>8. Lives'
  <2>1. now \in Nat /\ RunLife \in Nat
    BY TimeAssumption DEF IInv, TypeOK
  <2>2. \A v \in Worker : worker'[v].pc # "idle" =>
          worker'[v].started <= now /\ now <= worker'[v].started + RunLife
    BY <1>3, <2>1 DEF Times, Lives
  <2> QED
    BY <1>2, <1>6, <2>2 DEF Times, Lives
<1>9. TombstoneLasts'
  <2> SUFFICES ASSUME NEW q \in Reservation, gc'[q].phase = "delete"
               PROVE  /\ \A v \in Worker : (Writing(v)' /\ worker'[v].res = q) =>
                           worker'[v].started + Tombstone <= gc'[q].at
                      /\ \A c \in Cleaner : (Fencing(c)' /\ cleaner'[c].key = q) =>
                           cleaner'[c].started + Tombstone <= gc'[q].at + RunLife
    BY DEF TombstoneLasts
  <2>1. gc'[q] = gc[q]
    BY <1>5
  <2> QED
    BY <1>2, <1>4, <1>6, <1>7, <2>1 DEF Times, TombstoneLasts
<1>10. ASSUME NEW c \in Cleaner, cleaner[c].pc # "idle", cleaner[c].key \in Reservation
       PROVE  /\ gc'[cleaner[c].key] = gc[cleaner[c].key]
              /\ \A v \in Worker : (Writing(v)' /\ worker'[v].res = cleaner[c].key) =>
                   Writing(v) /\ worker'[v] = worker[v]
  BY <1>4, <1>5, <1>7, <1>10
<1>11. \A c \in Cleaner : cleaner[c].pc # "idle" => cleaner[c].key \in Reservation
  BY DEF Times, Lives
<1>12. FenceAfter'
  <2> SUFFICES ASSUME NEW c \in Cleaner, Fencing(c)
               PROVE  /\ gc'[cleaner[c].key].phase \in {"fence", "delete"}
                      /\ \A v \in Worker :
                           (Writing(v)' /\ worker'[v].res = cleaner[c].key) =>
                             worker'[v].started <= cleaner[c].started
    BY <1>2, <1>6 DEF FenceAfter
  <2> QED
    BY <1>10, <1>11 DEF Times, FenceAfter, Fencing
<1>13. DeleteAfter'
  <2> SUFFICES ASSUME NEW c \in Cleaner, Deleting(c)
               PROVE
         /\ gc'[cleaner[c].key].phase \in {"delete", "none"}
         /\ gc'[cleaner[c].key].phase = "delete" =>
              gc'[cleaner[c].key].at <= cleaner[c].started
         /\ \A v \in Worker : (Writing(v)' /\ worker'[v].res = cleaner[c].key) =>
              worker'[v].started + Tombstone <= cleaner[c].started
         /\ \A d \in Cleaner : (Fencing(d) /\ cleaner[d].key = cleaner[c].key) =>
              cleaner[d].started + Tombstone <= cleaner[c].started + RunLife
    BY <1>2, <1>6 DEF DeleteAfter
  <2> QED
    BY <1>10, <1>11 DEF Times, DeleteAfter, Deleting
<1> QED
  BY <1>8, <1>9, <1>12, <1>13 DEF Times

(* A retired receipt's entry is left alone when the receipt goes for good. *)
LEMMA GcOfRetired ==
  ASSUME IInv, Claims, NEW r \in Reservation, RetireReceipt(r), NEW q \in Reservation
  PROVE  /\ Retired(q) => gc'[q] = gc[q]
         /\ gc'[q] = gc[q] \/ gc'[q].phase = "fence"
         /\ gc[q].phase # "none" => gc'[q] = gc[q]
<1>1. /\ \A p \in Reservation : p # r => gc'[p] = gc[p]
      /\ gc'[r] = IF RawDue(r) /\ row[r].deleted = 0 /\ row[r].accepted # {}
                    THEN RetiredGc(r)
                  ELSE IF Expired(r) THEN PendingGc(r) ELSE gc[r]
      /\ Live(r)
  BY RetireEffect
<1>2. Retired(r) => gc'[r] = gc[r]
  BY <1>1 DEF Retired, Live, Expired
<1>3. gc[r].phase # "none" => Retired(r)
  BY DEF IInv, Objects, GarbageRetired
<1>4. ~Retired(r) => gc'[r] = gc[r] \/ gc'[r].phase = "fence"
  <2> SUFFICES ASSUME ~Retired(r) PROVE gc'[r] = gc[r] \/ gc'[r].phase = "fence"
    OBVIOUS
  <2>1. gc[r].phase = "none"
    BY <1>3
  <2> QED
    BY <1>1, <2>1 DEF RetiredGc, PendingGc
<1> QED
  BY <1>1, <1>2, <1>3, <1>4

(* Retiring sends no run's key another way.                                *)
LEMMA TimesRetire ==
  ASSUME IInv, Claims, Times, NEW r \in Reservation, RetireReceipt(r)
  PROVE  Times'
<1>1. UNCHANGED <<now, worker, cleaner>>
  BY DEF RetireReceipt
<1>2. \A q \in Reservation : Retired(q) => gc'[q] = gc[q]
  BY GcOfRetired
<1>3. \A q \in Reservation : gc'[q] = gc[q] \/ gc'[q].phase = "fence"
  BY GcOfRetired
<1>4. \A c \in Cleaner : cleaner[c].pc # "idle" =>
        gc'[cleaner[c].key] = gc[cleaner[c].key]
  BY <1>2 DEF IInv, Objects, GarbageRetired
<1>5. /\ \A c \in Cleaner : (Fencing(c)' <=> Fencing(c)) /\ (Deleting(c)' <=> Deleting(c))
      /\ \A v \in Worker : Writing(v)' <=> Writing(v)
  BY <1>1 DEF Fencing, Deleting, Writing
<1>6. Lives'
  BY <1>1, <1>5 DEF Times, Lives
<1>7. TombstoneLasts'
  BY <1>1, <1>3, <1>5 DEF Times, TombstoneLasts
<1>8. FenceAfter'
  BY <1>1, <1>4, <1>5 DEF Times, FenceAfter, Fencing
<1>9. DeleteAfter'
  BY <1>1, <1>4, <1>5 DEF Times, DeleteAfter, Deleting
<1> QED
  BY <1>6, <1>7, <1>8, <1>9 DEF Times

(* A run takes up a key after everything the bounds must keep it from.     *)
LEMMA TimesPick ==
  ASSUME IInv, Times, NEW c \in Cleaner, NEW r \in Reservation, PickGarbage(c, r)
  PROVE  Times'
<1>1. /\ UNCHANGED <<now, gc, worker>>
      /\ gc[r].phase # "none" /\ gc[r].at <= now /\ cleaner[c].pc = "idle"
      /\ cleaner' = [cleaner EXCEPT ![c] =
           [pc |-> "object", key |-> r, phase |-> gc[r].phase, started |-> now]]
  BY DEF PickGarbage, database
<1>2. /\ cleaner'[c] = [pc |-> "object", key |-> r, phase |-> gc[r].phase,
                        started |-> now]
      /\ \A d \in Cleaner : d # c => cleaner'[d] = cleaner[d]
  BY <1>1 DEF IInv, TypeOK
<1>3. /\ now \in Nat /\ gc[r].at \in Nat /\ gc[r].phase \in {"fence", "delete"}
      /\ RunLife \in Nat /\ Tombstone \in Nat
  BY <1>1, TimeAssumption DEF IInv, TypeOK, Phase
<1>4. \A d \in Cleaner : d # c =>
        (Fencing(d)' <=> Fencing(d)) /\ (Deleting(d)' <=> Deleting(d))
  BY <1>2 DEF Fencing, Deleting
<1>5. /\ Fencing(c)' <=> gc[r].phase = "fence"
      /\ Deleting(c)' <=> gc[r].phase = "delete"
  BY <1>2 DEF Fencing, Deleting
<1>6. \A v \in Worker : /\ Writing(v)' <=> Writing(v)
                        /\ Writing(v) => worker[v].pc # "idle"
  BY <1>1 DEF Writing
<1>7. Lives'
  <2> SUFFICES ASSUME NEW d \in Cleaner, cleaner'[d].pc # "idle"
               PROVE  /\ cleaner'[d].started <= now
                      /\ now <= cleaner'[d].started + RunLife
                      /\ cleaner'[d].key \in Reservation
                      /\ Fencing(d)' \/ Deleting(d)'
    BY <1>1 DEF Times, Lives
  <2>1. CASE d = c
    BY <1>2, <1>3, <1>5, <2>1
  <2>2. CASE d # c
    BY <1>2, <1>4, <2>2 DEF Times, Lives
  <2> QED
    BY <2>1, <2>2
<1>8. TombstoneLasts'
  <2> SUFFICES ASSUME NEW q \in Reservation, gc[q].phase = "delete",
                      NEW d \in Cleaner, Fencing(d)', cleaner'[d].key = q
               PROVE  cleaner'[d].started + Tombstone <= gc[q].at + RunLife
    BY <1>1, <1>6 DEF Times, TombstoneLasts
  <2>1. d # c
    BY <1>2, <1>5
  <2> QED
    BY <1>2, <1>4, <2>1 DEF Times, TombstoneLasts
<1>9. FenceAfter'
  <2> SUFFICES ASSUME NEW d \in Cleaner, Fencing(d)'
               PROVE  /\ gc[cleaner'[d].key].phase \in {"fence", "delete"}
                      /\ \A v \in Worker :
                           (Writing(v) /\ worker[v].res = cleaner'[d].key) =>
                             worker[v].started <= cleaner'[d].started
    BY <1>1, <1>6 DEF FenceAfter
  <2>1. CASE d = c
    BY <1>2, <1>3, <1>6, <2>1 DEF Times, Lives
  <2>2. CASE d # c
    BY <1>2, <1>4, <2>2 DEF Times, FenceAfter
  <2> QED
    BY <2>1, <2>2
<1>10. DeleteAfter'
  <2> SUFFICES ASSUME NEW d \in Cleaner, Deleting(d)'
               PROVE
         /\ gc[cleaner'[d].key].phase \in {"delete", "none"}
         /\ gc[cleaner'[d].key].phase = "delete" =>
              gc[cleaner'[d].key].at <= cleaner'[d].started
         /\ \A v \in Worker : (Writing(v) /\ worker[v].res = cleaner'[d].key) =>
              worker[v].started + Tombstone <= cleaner'[d].started
         /\ \A f \in Cleaner : (Fencing(f)' /\ cleaner'[f].key = cleaner'[d].key) =>
              cleaner'[f].started + Tombstone <= cleaner'[d].started + RunLife
    BY <1>1, <1>6 DEF DeleteAfter
  <2>1. CASE d = c
    <3>1. gc[r].phase = "delete" /\ cleaner'[d].started = now /\ cleaner'[d].key = r
      BY <1>2, <1>5, <2>1
    <3>2. \A v \in Worker : (Writing(v) /\ worker[v].res = r) =>
            worker[v].started + Tombstone <= gc[r].at /\ worker[v].started \in Nat
      BY <3>1 DEF Times, TombstoneLasts, IInv, TypeOK, WorkerType
    <3>3. \A f \in Cleaner : (Fencing(f) /\ cleaner[f].key = r) =>
            cleaner[f].started + Tombstone <= gc[r].at + RunLife
            /\ cleaner[f].started \in Nat
      BY <3>1 DEF Times, TombstoneLasts, IInv, TypeOK, CleanerType
    <3>4. \A f \in Cleaner : Fencing(f)' =>
            Fencing(f) /\ cleaner'[f] = cleaner[f]
      BY <1>2, <1>4, <1>5, <3>1
    <3>5. \A v \in Worker : (Writing(v) /\ worker[v].res = r) =>
            worker[v].started + Tombstone <= now
      BY <1>1, <1>3, <3>2
    <3>6. \A f \in Cleaner : (Fencing(f) /\ cleaner[f].key = r) =>
            cleaner[f].started + Tombstone <= now + RunLife
      BY <1>1, <1>3, <3>3
    <3> QED
      BY <1>1, <3>1, <3>4, <3>5, <3>6
  <2>2. CASE d # c
    <3>1. Deleting(d) /\ cleaner'[d] = cleaner[d]
      BY <1>2, <1>4, <2>2
    <3>2. Fencing(c)' => cleaner'[c].key # cleaner[d].key
      BY <1>2, <1>5, <3>1 DEF Times, DeleteAfter
    <3> QED
      BY <1>2, <1>4, <3>1, <3>2 DEF Times, DeleteAfter
  <2> QED
    BY <2>1, <2>2
<1> QED
  BY <1>7, <1>8, <1>9, <1>10 DEF Times

(* Recording what a run did, or stopping it: the tombstone a fence starts  *)
(* outlasts all that may still write or fence the key.                     *)
LEMMA TimesCleaned ==
  ASSUME IInv, Times, NEW c \in Cleaner,
         CleanObject(c) \/ CleanRow(c) \/ StopCleaner(c)
  PROVE  Times'
<1>1. UNCHANGED <<now, worker>>
  BY DEF CleanObject, CleanRow, StopCleaner, database
<1>2. \A d \in Cleaner :
        \/ cleaner'[d] = cleaner[d]
        \/ cleaner'[d].pc = "idle"
        \/ /\ cleaner[d].pc = "object" /\ cleaner'[d].key = cleaner[d].key
           /\ cleaner'[d].phase = cleaner[d].phase
           /\ cleaner'[d].started = cleaner[d].started
  BY DEF CleanObject, CleanRow, StopCleaner, IInv, TypeOK, CleanerType, IdleCleaner
<1>3. \A d \in Cleaner : cleaner'[d].pc # "idle" =>
        /\ cleaner[d].pc # "idle"
        /\ cleaner'[d].key = cleaner[d].key /\ cleaner'[d].phase = cleaner[d].phase
        /\ cleaner'[d].started = cleaner[d].started
  BY <1>2
<1>4. /\ \A d \in Cleaner : Fencing(d)' =>
           Fencing(d) /\ cleaner'[d].key = cleaner[d].key
           /\ cleaner'[d].started = cleaner[d].started
      /\ \A d \in Cleaner : Deleting(d)' =>
           Deleting(d) /\ cleaner'[d].key = cleaner[d].key
           /\ cleaner'[d].started = cleaner[d].started
      /\ \A d \in Cleaner : cleaner'[d].pc # "idle" =>
           (Fencing(d) <=> Fencing(d)') /\ (Deleting(d) <=> Deleting(d)')
  BY <1>3 DEF Fencing, Deleting
<1>5. \A v \in Worker : Writing(v)' <=> Writing(v)
  BY <1>1 DEF Writing
<1>6. Lives'
  BY <1>1, <1>3, <1>4 DEF Times, Lives
<1>7. CASE gc' = gc
  <2>1. TombstoneLasts'
    BY <1>1, <1>4, <1>5, <1>7 DEF Times, TombstoneLasts
  <2>2. FenceAfter'
    BY <1>1, <1>4, <1>5, <1>7 DEF Times, FenceAfter
  <2>3. DeleteAfter'
    BY <1>1, <1>4, <1>5, <1>7 DEF Times, DeleteAfter
  <2> QED
    BY <1>6, <2>1, <2>2, <2>3 DEF Times
<1>8. CASE gc' # gc
  <2> DEFINE k == cleaner[c].key
  <2>1. /\ cleaner[c].pc = "row" /\ k \in Reservation
        /\ gc' = [gc EXCEPT ![k] =
             IF @.phase # cleaner[c].phase THEN @
             ELSE IF @.phase = "fence"
               THEN [phase |-> "delete", at |-> cleaner[c].started + Tombstone]
             ELSE NoGc]
    BY <1>8 DEF CleanObject, CleanRow, StopCleaner, database, TombstoneEnd,
                Times, Lives
  <2>2. \A q \in Reservation : q # k => gc'[q] = gc[q]
    BY <2>1 DEF IInv, TypeOK
  <2>3. gc[k].phase = cleaner[c].phase
    BY <1>8, <2>1 DEF IInv, TypeOK
  <2>4. \A d \in Cleaner : cleaner[d].pc # "idle" => cleaner[d].key \in Reservation
    BY DEF Times, Lives
  <2>5. CASE Fencing(c)
    <3>1. gc'[k] = [phase |-> "delete", at |-> cleaner[c].started + Tombstone]
      BY <2>1, <2>3, <2>5 DEF Fencing, IInv, TypeOK
    <3>2. \A d \in Cleaner : Deleting(d) => cleaner[d].key # k
      BY <2>5, Apart
    <3>3. /\ \A v \in Worker : (Writing(v) /\ worker[v].res = k) =>
               worker[v].started <= cleaner[c].started
      BY <2>5 DEF Times, FenceAfter
    <3>4. \A d \in Cleaner : Fencing(d) =>
            cleaner[d].started <= cleaner[c].started + RunLife
      <4> SUFFICES ASSUME NEW d \in Cleaner, Fencing(d)
                   PROVE  cleaner[d].started <= cleaner[c].started + RunLife
        OBVIOUS
      <4>1. cleaner[d].started <= now /\ now <= cleaner[c].started + RunLife
        BY <2>1 DEF Times, Lives, Fencing
      <4>2. now \in Nat /\ cleaner[d].started \in Nat /\ cleaner[c].started \in Nat
        BY DEF IInv, TypeOK, CleanerType
      <4> QED
        BY <4>1, <4>2, TimeAssumption
    <3>5. /\ \A d \in Cleaner : cleaner[d].started \in Nat
          /\ \A v \in Worker : worker[v].started \in Nat
          /\ Tombstone \in Nat /\ RunLife \in Nat
      BY TimeAssumption DEF IInv, TypeOK, CleanerType, WorkerType
    <3>6. TombstoneLasts'
      <4> SUFFICES ASSUME NEW q \in Reservation, gc'[q].phase = "delete"
                   PROVE  /\ \A v \in Worker : (Writing(v) /\ worker[v].res = q) =>
                               worker[v].started + Tombstone <= gc'[q].at
                          /\ \A d \in Cleaner : (Fencing(d) /\ cleaner[d].key = q) =>
                               cleaner[d].started + Tombstone <= gc'[q].at + RunLife
        BY <1>1, <1>4, <1>5 DEF TombstoneLasts
      <4>1. CASE q = k
        BY <3>1, <3>3, <3>4, <3>5, <4>1
      <4>2. CASE q # k
        BY <2>2, <4>2 DEF Times, TombstoneLasts
      <4> QED
        BY <4>1, <4>2
    <3>7. FenceAfter'
      <4> SUFFICES ASSUME NEW d \in Cleaner, Fencing(d)
                   PROVE  /\ gc'[cleaner[d].key].phase \in {"fence", "delete"}
                          /\ \A v \in Worker :
                               (Writing(v) /\ worker[v].res = cleaner[d].key) =>
                                 worker[v].started <= cleaner[d].started
        BY <1>1, <1>4, <1>5 DEF FenceAfter
      <4>1. gc'[cleaner[d].key].phase \in {"fence", "delete"}
        BY <2>2, <2>4, <3>1 DEF Times, FenceAfter, Fencing
      <4> QED
        BY <4>1 DEF Times, FenceAfter
    <3>8. DeleteAfter'
      <4>1. \A d \in Cleaner : Deleting(d) => gc'[cleaner[d].key] = gc[cleaner[d].key]
        BY <2>2, <2>4, <3>2 DEF Deleting
      <4> QED
        BY <1>1, <1>4, <1>5, <4>1 DEF Times, DeleteAfter
    <3> QED
      BY <1>6, <3>6, <3>7, <3>8 DEF Times
  <2>6. CASE Deleting(c)
    <3>1. gc'[k] = NoGc /\ NoGc.phase = "none"
      BY <2>1, <2>3, <2>6 DEF Deleting, IInv, TypeOK, NoGc
    <3>2. \A d \in Cleaner : Fencing(d) => cleaner[d].key # k
      BY <2>6, Apart
    <3>3. TombstoneLasts'
      <4>1. \A q \in Reservation : gc'[q].phase = "delete" => gc'[q] = gc[q]
        BY <2>2, <3>1
      <4> QED
        BY <1>1, <1>4, <1>5, <4>1 DEF Times, TombstoneLasts
    <3>4. FenceAfter'
      <4>1. \A d \in Cleaner : Fencing(d) => gc'[cleaner[d].key] = gc[cleaner[d].key]
        BY <2>2, <2>4, <3>2 DEF Fencing
      <4> QED
        BY <1>1, <1>4, <1>5, <4>1 DEF Times, FenceAfter
    <3>5. DeleteAfter'
      <4>1. \A d \in Cleaner : Deleting(d) =>
              \/ gc'[cleaner[d].key] = gc[cleaner[d].key]
              \/ gc'[cleaner[d].key].phase = "none"
        BY <2>2, <2>4, <3>1 DEF Deleting
      <4> QED
        BY <1>1, <1>4, <1>5, <4>1 DEF Times, DeleteAfter
    <3> QED
      BY <1>6, <3>3, <3>4, <3>5 DEF Times
  <2>7. cleaner[c].pc # "idle"
    BY <2>1
  <2> QED
    BY <2>5, <2>6, <2>7 DEF Times, Lives
<1> QED
  BY <1>7, <1>8

(* What a request's later steps do to the requests.                        *)
LEMMA RequestMoves ==
  ASSUME IInv, NEW w \in Worker, Request(w),
         ~ \E b \in BatchId, in \in Input : Reserve(w, b, in)
  PROVE  /\ UNCHANGED <<now, claim, gc, cleaner>>
         /\ \A v \in Worker :
              \/ worker'[v] = worker[v]
              \/ worker'[v].pc = "idle"
              \/ /\ Writing(v) /\ Writing(v)'
                 /\ worker'[v].pc # "reserved"
                 /\ worker'[v].pc = "put" =>
                      v = w /\ ReadOwned(w) /\ worker'[v].owned # {}
                 /\ worker'[v].res = worker[v].res
                 /\ worker'[v].started = worker[v].started
<1>1. UNCHANGED <<now, claim, gc, cleaner>>
  BY DEF Request, ReplySealed, ReadOwned, PutObject, VerifyObject, Seal, Confirm,
         Abandon, database
<1>2. CASE ReadOwned(w)
  <2> DEFINE owned == {e \in worker[w].input :
                         claim[IdOf(e)].owner = worker[w].res}
  <2>1. /\ worker[w].pc = "reserved"
        /\ worker' = [worker EXCEPT ![w].owned = owned,
                       ![w].pc = IF owned = {} THEN "seal" ELSE "put"]
    BY <1>2 DEF ReadOwned
  <2>2. /\ worker'[w].owned = owned
        /\ worker'[w].pc = IF owned = {} THEN "seal" ELSE "put"
        /\ worker'[w].res = worker[w].res /\ worker'[w].started = worker[w].started
        /\ \A v \in Worker : v # w => worker'[v] = worker[v]
    BY <2>1 DEF IInv, TypeOK, WorkerType
  <2>3. worker[w].pc = "reserved"
    BY <2>1
  <2> HIDE DEF owned
  <2>4. /\ Writing(w) /\ Writing(w)' /\ worker'[w].pc # "reserved"
        /\ worker'[w].pc = "put" => worker'[w].owned # {}
    BY <2>2, <2>3 DEF Writing
  <2> QED
    BY <1>1, <1>2, <2>2, <2>4
<1>3. CASE ~ReadOwned(w)
  <2>1. \/ worker' = [worker EXCEPT ![w] = IdleWorker]
        \/ /\ worker[w].pc \in {"put", "verify", "seal"}
           /\ \E p \in {"verify", "seal", "confirm"} :
                worker' = [worker EXCEPT ![w].pc = p]
    BY <1>3 DEF Request, ReplySealed, PutObject, VerifyObject, Seal, Confirm, Abandon
  <2> QED
    BY <1>1, <2>1 DEF IInv, TypeOK, WorkerType, IdleWorker, Writing
<1> QED
  BY <1>2, <1>3

(* Every step keeps the bounds on who is alive when.                       *)
LEMMA TimesStep ==
  ASSUME IInv, Claims, Times, [Next]_vars
  PROVE  Times'
<1>1. ASSUME NEW w \in Worker, Request(w) PROVE Times'
  <2>1. CASE \E b \in BatchId, in \in Input : Reserve(w, b, in)
    BY <2>1, TimesReserve
  <2>2. CASE ~ \E b \in BatchId, in \in Input : Reserve(w, b, in)
    <3>1. /\ UNCHANGED <<now, gc, cleaner>>
          /\ \A v \in Worker : worker'[v].pc # "idle" =>
               /\ worker[v].pc # "idle"
               /\ worker'[v].started = worker[v].started
               /\ worker'[v].res = worker[v].res
               /\ Writing(v)' => Writing(v)
      BY <1>1, <2>2, RequestMoves DEF Writing
    <3> QED
      BY <3>1, TimesFrame
  <2> QED
    BY <2>1, <2>2
<1>2. ASSUME NEW c \in Cleaner, Clean(c) PROVE Times'
  BY <1>2, TimesPick, TimesCleaned DEF Clean
<1>3. ASSUME NEW r \in Reservation, RetireReceipt(r) PROVE Times'
  BY <1>3, TimesRetire
<1>4. CASE Tick
  <2>1. /\ UNCHANGED <<gc, worker, cleaner>> /\ now' = now + 1
        /\ \A w \in Worker : worker[w].pc # "idle" => now < worker[w].started + RunLife
        /\ \A c \in Cleaner : cleaner[c].pc # "idle" => now < cleaner[c].started + RunLife
    BY <1>4 DEF Tick, database
  <2>2. /\ \A c \in Cleaner : (Fencing(c)' <=> Fencing(c)) /\ (Deleting(c)' <=> Deleting(c))
        /\ \A v \in Worker : Writing(v)' <=> Writing(v)
    BY <2>1 DEF Fencing, Deleting, Writing
  <2>3. /\ now \in Nat /\ RunLife \in Nat
        /\ \A w \in Worker : worker[w].started \in Nat
        /\ \A c \in Cleaner : cleaner[c].started \in Nat
    BY TimeAssumption DEF IInv, TypeOK, WorkerType, CleanerType
  <2>4. \A w \in Worker : worker[w].pc # "idle" =>
          worker[w].started <= now + 1 /\ now + 1 <= worker[w].started + RunLife
    BY <2>1, <2>3 DEF Times, Lives
  <2>5. \A c \in Cleaner : cleaner[c].pc # "idle" =>
          cleaner[c].started <= now + 1 /\ now + 1 <= cleaner[c].started + RunLife
    BY <2>1, <2>3 DEF Times, Lives
  <2>6. Lives'
    BY <2>1, <2>2, <2>4, <2>5 DEF Times, Lives
  <2> QED
    BY <2>1, <2>2, <2>6 DEF Times, TombstoneLasts, FenceAfter, DeleteAfter
<1>5. CASE UNCHANGED vars
  BY <1>5 DEF vars, database, Times, Lives, TombstoneLasts, FenceAfter, DeleteAfter,
              Writing, Fencing, Deleting
<1> QED
  BY <1>1, <1>2, <1>3, <1>4, <1>5 DEF Next
-----------------------------------------------------------------------------
(* The objects always have somebody who removes them                       *)

(* A step that moves no receipt, claim, object or run, and lets no other   *)
(* request come near its create.                                           *)
LEMMA StoredFrame ==
  ASSUME Stored, UNCHANGED <<now, row, claim, gc, object, cleaner>>,
         \A v \in Worker : worker'[v].pc \in {"reserved", "put"} =>
                             worker'[v] = worker[v]
  PROVE  Stored'
<1>1. WriterAwaited'
  BY DEF Stored, WriterAwaited, Retired
<1> QED
  BY <1>1 DEF Stored, StoredOwned, Owned, CleanedSo, Fenced, NoOrphan, Live

(* A fresh receipt's key has never held an object, and an expired one's    *)
(* object becomes garbage in the same transaction.                         *)
LEMMA StoredReserve ==
  ASSUME IInv, Claims, Stored, NEW w \in Worker, NEW b \in BatchId,
         NEW in \in Input, Reserve(w, b, in)
  PROVE  Stored'
<1>0. Held
  BY DEF Claims
<1>1. PICK r \in Reservation \ Dead : ReservedAs(w, b, in, r)
  BY ReserveEffect
<1>2. UNCHANGED <<now, object, cleaner>>
  BY DEF Reserve
<1>3. /\ \A v \in Worker : v # w => worker'[v] = worker[v]
      /\ worker'[w].pc = IF row[r].state = "sealed" THEN "replay" ELSE "reserved"
      /\ worker'[w].res = r
  BY <1>1 DEF ReservedAs, IInv, TypeOK
<1>4. /\ \A q \in Dead : row'[q].state = "gone" /\ row[q].state = "pending"
      /\ ~Live(r) => row[r].state = "free" /\ row'[r].state = "pending"
      /\ \A q \in Reservation \ Dead : (q # r \/ Live(r)) => row'[q] = row[q]
  BY <1>1 DEF ReservedAs, GoneRow, FreeRow, NewRow
<1>5. \A q \in Reservation : gc'[q] = gc[q] \/ (gc'[q].phase = "fence" /\ q \in Dead)
  <2> SUFFICES ASSUME NEW q \in Dead, q \in Reservation
               PROVE  gc'[q] = gc[q] \/ gc'[q].phase = "fence"
    BY <1>1 DEF ReservedAs
  <2> QED
    BY <1>1 DEF ReservedAs, PendingGc
<1>6. \A q \in Dead : q \in Reservation => gc'[q].phase # "none"
  BY <1>1 DEF ReservedAs, PendingGc
<1>7. ~Live(r) => object[r].kind = "absent"
  <2> SUFFICES ASSUME ~Live(r), object[r].kind # "absent" PROVE FALSE
    BY DEF IInv, TypeOK
  <2>1. gc[r].phase # "none"
    BY DEF Stored, NoOrphan
  <2> QED
    BY <1>4, <2>1 DEF IInv, Objects, GarbageRetired, Retired
<1>8. StoredOwned'
  <2> SUFFICES ASSUME NEW q \in Reservation, Live(q)', row'[q].deleted = 0,
                      object[q].kind # "absent"
               PROVE  Owned(q)' # {}
    BY <1>2 DEF StoredOwned
  <2>1. q # r \/ Live(r)
    BY <1>7
  <2>2. Live(q) /\ row'[q] = row[q]
    BY <1>4, <2>1 DEF Live
  <2>3. Owned(q)' = Owned(q)
    BY <1>0, <2>2, OwnedKept
  <2> QED
    BY <2>2, <2>3 DEF Stored, StoredOwned
<1>9. WriterAwaited'
  <2> SUFFICES ASSUME NEW v \in Worker
               PROVE
         /\ (worker'[v].pc = "put" /\ Retired(worker[v].res)') =>
              gc'[worker'[v].res].phase # "none"
         /\ (/\ worker'[v].pc = "reserved"
             /\ row'[worker'[v].res].state = "sealed"
             /\ row'[worker'[v].res].deleted = 1
             /\ row'[worker'[v].res].accepted # {}) =>
              gc'[worker'[v].res].phase # "none"
    BY DEF WriterAwaited
  <2>1. CASE v = w
    BY <1>3, <1>4, <2>1 DEF Live
  <2>2. CASE v # w
    <3>1. worker'[v] = worker[v]
      BY <1>3, <2>2
    <3>2. worker[v].pc # "idle" =>
            worker[v].res \in Reservation /\ row[worker[v].res].state # "free"
      BY DEF IInv, Requests, WorkerBatch
    <3>3. CASE worker[v].res \in Dead
      BY <1>4, <1>6, <3>1, <3>2, <3>3
    <3>4. CASE worker[v].res \notin Dead
      <4>1. worker[v].pc # "idle" =>
              /\ row'[worker[v].res] = row[worker[v].res]
              /\ gc'[worker[v].res] = gc[worker[v].res]
        BY <1>4, <1>5, <3>2, <3>4 DEF Live
      <4> QED
        BY <3>1, <4>1 DEF Stored, WriterAwaited, Retired
    <3> QED
      BY <3>3, <3>4
  <2> QED
    BY <2>1, <2>2
<1>10. CleanedSo'
  BY <1>2 DEF Stored, CleanedSo
<1>11. Fenced'
  BY <1>2, <1>5 DEF Stored, Fenced
<1>12. NoOrphan'
  <2> SUFFICES ASSUME NEW q \in Reservation, object[q].kind # "absent",
                      gc'[q].phase = "none"
               PROVE  Live(q)' /\ row'[q].deleted = 0
    BY <1>2 DEF NoOrphan
  <2>1. q \notin Dead /\ gc'[q] = gc[q]
    BY <1>5, <1>6
  <2>2. Live(q) /\ row[q].deleted = 0
    BY <2>1 DEF Stored, NoOrphan
  <2>3. row'[q] = row[q]
    BY <1>4, <2>1, <2>2
  <2> QED
    BY <2>2, <2>3 DEF Live
<1> QED
  BY <1>8, <1>9, <1>10, <1>11, <1>12 DEF Stored

(* The steps of a request: it creates an object only under a key that is   *)
(* its receipt's, or that the garbage table still waits for.               *)
LEMMA StoredRequest ==
  ASSUME IInv, EInv, NEW w \in Worker, Request(w)
  PROVE  Stored'
<1> USE DEF EInv
<1>1. ASSUME NEW b \in BatchId, NEW in \in Input, Reserve(w, b, in)
      PROVE  Stored'
  BY <1>1, StoredReserve
<1>2. ASSUME ~ \E b \in BatchId, in \in Input : Reserve(w, b, in)
      PROVE  /\ UNCHANGED <<now, claim, gc, cleaner>>
             /\ \A v \in Worker : worker'[v].pc \in {"reserved", "put"} =>
                  \/ worker'[v] = worker[v]
                  \/ v = w /\ ReadOwned(w) /\ worker'[v].owned # {}
  BY <1>2, RequestMoves
<1>3. CASE ReplySealed(w) \/ VerifyObject(w) \/ Confirm(w) \/ Abandon(w)
  <2>1. /\ UNCHANGED <<now, row, claim, gc, object, cleaner>>
        /\ \/ worker' = [worker EXCEPT ![w] = IdleWorker]
           \/ worker' = [worker EXCEPT ![w].pc = "seal"]
    BY <1>3 DEF ReplySealed, VerifyObject, Confirm, Abandon, database
  <2>2. \A v \in Worker : worker'[v].pc \in {"reserved", "put"} =>
                            worker'[v] = worker[v]
    BY <2>1 DEF IInv, TypeOK, WorkerType, IdleWorker
  <2> QED
    BY <2>1, <2>2, StoredFrame
<1>4. CASE ReadOwned(w)
  <2> DEFINE owned == {e \in worker[w].input :
                         claim[IdOf(e)].owner = worker[w].res}
  <2>1. UNCHANGED <<now, row, claim, gc, object, cleaner>>
    BY <1>4 DEF ReadOwned, database
  <2>2. /\ worker[w].pc = "reserved"
        /\ worker' = [worker EXCEPT ![w].owned = owned,
                       ![w].pc = IF owned = {} THEN "seal" ELSE "put"]
    BY <1>4 DEF ReadOwned
  <2>3. /\ worker'[w].pc = IF owned = {} THEN "seal" ELSE "put"
        /\ worker'[w].res = worker[w].res
        /\ \A v \in Worker : v # w => worker'[v] = worker[v]
    BY <2>2 DEF IInv, TypeOK, WorkerType
  <2>4. ASSUME owned # {}, Retired(worker[w].res)
        PROVE  gc[worker[w].res].phase # "none"
    <3>1. PICK e \in worker[w].input : claim[IdOf(e)].owner = worker[w].res
      BY <2>4
    <3>2. worker[w].res \in Reservation /\ IdOf(e) \in Id
      BY <2>2, EventAssumption DEF IInv, Requests, WorkerBatch, TypeOK, WorkerType
    <3>3. Live(worker[w].res)
      BY <3>1, <3>2, EventAssumption DEF IInv, Tables, ClaimsBacked
    <3>4. row[worker[w].res].state = "sealed" /\ row[worker[w].res].deleted = 1
      BY <2>4, <3>3 DEF Retired, Live
    <3>5. row[worker[w].res].input = worker[w].input
      BY <2>2, <3>3 DEF IInv, Requests, WorkerBatch
    <3>6. row[worker[w].res].accepted # {}
      BY <3>1, <3>2, <3>4, <3>5 DEF Claims, AcceptedExact, Owned
    <3> QED
      BY <2>2, <3>4, <3>6 DEF Stored, WriterAwaited
  <2> HIDE DEF owned
  <2>5. WriterAwaited'
    BY <2>1, <2>3, <2>4 DEF Stored, WriterAwaited, Retired
  <2> QED
    BY <2>1, <2>5 DEF Stored, StoredOwned, Owned, CleanedSo, Fenced, NoOrphan, Live
<1>5. CASE PutObject(w)
  <2> DEFINE r == worker[w].res
  <2>1. /\ UNCHANGED <<now, row, claim, gc, cleaner>>
        /\ worker[w].pc = "put" /\ r \in Reservation /\ Writing(w)
        /\ row[r].state # "free"
    BY <1>5 DEF PutObject, database, IInv, Requests, WorkerBatch, Writing
  <2>2. \/ worker' = [worker EXCEPT ![w].pc = "seal"]
        \/ worker' = [worker EXCEPT ![w].pc = "verify"]
    BY <1>5 DEF PutObject
  <2>3. \A v \in Worker : worker'[v].pc \in {"reserved", "put"} =>
                            worker'[v] = worker[v]
    BY <2>2 DEF IInv, TypeOK, WorkerType
  <2>4. CASE object' = object
    BY <2>1, <2>3, <2>4, StoredFrame
  <2>5. CASE object' # object
    <3>1. /\ object[r].kind = "absent"
          /\ object' = [object EXCEPT ![r] =
                          [kind |-> "body", events |-> worker[w].owned]]
      BY <1>5, <2>5 DEF PutObject, Creatable
    <3>2. /\ object'[r].kind = "body"
          /\ \A q \in Reservation : q # r => object'[q] = object[q]
      BY <2>1, <3>1 DEF IInv, TypeOK
    <3>3. gc[r].phase # "delete"
      <4> SUFFICES ASSUME gc[r].phase = "delete" PROVE FALSE
        OBVIOUS
      <4>1. gc[r].at > now
        BY <2>1, NoWriterLeft
      <4>2. gc[r].at <= now
        BY <2>1, <3>1 DEF Stored, Fenced
      <4>3. gc[r].at \in Nat /\ now \in Nat
        BY <2>1 DEF IInv, TypeOK
      <4> QED
        BY <4>1, <4>2, <4>3
    <3>4. \A c \in Cleaner : cleaner[c].pc = "row" => cleaner[c].key # r
      <4> SUFFICES ASSUME NEW c \in Cleaner, cleaner[c].pc = "row",
                          cleaner[c].key = r
                   PROVE  FALSE
        OBVIOUS
      <4>1. cleaner[c].phase # "fence"
        BY <3>1 DEF Stored, CleanedSo
      <4>2. Deleting(c)
        BY <4>1 DEF Times, Lives, Fencing
      <4> QED
        BY <2>1, <4>2, NoWriterLeft
    <3>5. StoredOwned'
      <4>1. Live(r) => Owned(r) # {}
        BY <2>1 DEF Claims, OwnedExact, PutNonEmpty
      <4> QED
        BY <2>1, <3>2, <4>1 DEF Stored, StoredOwned, Owned, Live
    <3>6. WriterAwaited'
      BY <2>1, <2>3 DEF Stored, WriterAwaited, Retired
    <3>7. CleanedSo'
      <4>1. \A c \in Cleaner : cleaner[c].pc = "row" => cleaner[c].key \in Reservation
        BY DEF Times, Lives
      <4> QED
        BY <2>1, <3>2, <3>4, <4>1 DEF Stored, CleanedSo
    <3>8. Fenced'
      BY <2>1, <3>2, <3>3 DEF Stored, Fenced
    <3>9. NoOrphan'
      <4>1. (Live(r) /\ row[r].deleted = 0) \/ gc[r].phase # "none"
        <5>1. CASE Retired(r)
          BY <2>1, <5>1 DEF Stored, WriterAwaited
        <5>2. CASE ~Retired(r)
          BY <2>1, <5>2 DEF Retired, Live, IInv, TypeOK, RowType, Claims, DeletedSealed
        <5> QED
          BY <5>1, <5>2
      <4> QED
        BY <2>1, <3>2, <4>1 DEF Stored, NoOrphan, Live
    <3> QED
      BY <3>5, <3>6, <3>7, <3>8, <3>9 DEF Stored
  <2> QED
    BY <2>4, <2>5
<1>6. CASE Seal(w)
  <2> DEFINE r == worker[w].res
  <2>1. /\ UNCHANGED <<now, claim, gc, object, cleaner>>
        /\ worker[w].pc = "seal" /\ r \in Reservation
    BY <1>6 DEF Seal, IInv, Requests, WorkerBatch
  <2>2. \/ worker' = [worker EXCEPT ![w] = IdleWorker]
        \/ worker' = [worker EXCEPT ![w].pc = "confirm"]
    BY <1>6 DEF Seal
  <2>3. \A v \in Worker : worker'[v].pc \in {"reserved", "put"} =>
                            worker'[v] = worker[v]
    BY <2>2 DEF IInv, TypeOK, WorkerType, IdleWorker
  <2>4. CASE ~Sealable(w)
    <3>1. row' = row
      BY <1>6, <2>4 DEF Seal
    <3> QED
      BY <2>1, <2>3, <3>1, StoredFrame
  <2>5. CASE Sealable(w)
    <3>1. /\ row[r].state = "pending"
          /\ row' = [row EXCEPT ![r].state = "sealed",
                                ![r].accepted = worker[w].owned]
      BY <1>6, <2>5 DEF Seal, Sealable
    <3>2. /\ row'[r].state = "sealed" /\ row'[r].deleted = row[r].deleted
          /\ row'[r].input = row[r].input
          /\ \A q \in Reservation : q # r => row'[q] = row[q]
      BY <2>1, <3>1 DEF IInv, TypeOK, RowType
    <3>3. row[r].deleted = 0
      BY <2>1, <3>1 DEF Claims, DeletedSealed, IInv, TypeOK, RowType
    <3>10. row[r].state = "pending" /\ UNCHANGED claim
      BY <2>1, <3>1
    <3> HIDE DEF r
    <3>4. \A q \in Reservation :
            /\ Live(q)' <=> Live(q)
            /\ Owned(q)' = Owned(q)
            /\ Retired(q)' <=> Retired(q)
            /\ row'[q].deleted = row[q].deleted
      <4> SUFFICES ASSUME NEW q \in Reservation
                   PROVE  /\ Live(q)' <=> Live(q)
                          /\ Owned(q)' = Owned(q)
                          /\ Retired(q)' <=> Retired(q)
                          /\ row'[q].deleted = row[q].deleted
        OBVIOUS
      <4>1. CASE q = r
        BY <2>1, <3>2, <3>3, <3>10, <4>1 DEF Live, Owned, Retired
      <4>2. CASE q # r
        BY <2>1, <3>2, <4>2 DEF Live, Owned, Retired
      <4> QED
        BY <4>1, <4>2
    <3>5. StoredOwned'
      BY <2>1, <3>4 DEF Stored, StoredOwned
    <3>6. WriterAwaited'
      <4> SUFFICES ASSUME NEW v \in Worker, worker'[v].pc \in {"reserved", "put"},
                          worker'[v] = worker[v], Retired(worker[v].res)',
                          worker[v].pc = "reserved" => row'[worker[v].res].accepted # {}
                                                       /\ row'[worker[v].res].state = "sealed"
                   PROVE  gc[worker[v].res].phase # "none"
        BY <2>1, <2>3 DEF WriterAwaited, Retired
      <4>1. worker[v].res \in Reservation
        BY DEF IInv, Requests, WorkerBatch
      <4>2. worker[v].res # r
        BY <3>2, <3>3 DEF Retired
      <4>3. row'[worker[v].res] = row[worker[v].res]
        BY <3>2, <4>1, <4>2
      <4> QED
        BY <4>3 DEF Stored, WriterAwaited, Retired
    <3>7. CleanedSo' /\ Fenced'
      BY <2>1 DEF Stored, CleanedSo, Fenced
    <3>8. NoOrphan'
      BY <2>1, <3>4 DEF Stored, NoOrphan
    <3> QED
      BY <3>5, <3>6, <3>7, <3>8 DEF Stored
  <2> QED
    BY <2>4, <2>5
<1> QED
  BY <1>1, <1>3, <1>4, <1>5, <1>6 DEF Request

(* A receipt retired with an object, or with a request that may still      *)
(* create it, leaves a garbage entry.                                      *)
LEMMA StoredRetire ==
  ASSUME IInv, EInv, NEW r \in Reservation, RetireReceipt(r)
  PROVE  Stored'
<1> USE DEF EInv
<1>1. /\ Live(r)
      /\ \A q \in Reservation : q # r => row'[q] = row[q] /\ gc'[q] = gc[q]
      /\ \/ row'[r] = GoneRow
         \/ /\ row[r].state = "sealed"
            /\ row' = [row EXCEPT ![r].deleted = 1]
      /\ gc'[r] = IF RawDue(r) /\ row[r].deleted = 0 /\ row[r].accepted # {}
                    THEN RetiredGc(r)
                  ELSE IF Expired(r) THEN PendingGc(r) ELSE gc[r]
  BY RetireEffect
<1>2. /\ UNCHANGED <<now, object, worker, cleaner>>
      /\ Due(r)
  BY DEF RetireReceipt
<1>3. \A q \in Reservation :
        /\ Retired(q) => gc'[q] = gc[q]
        /\ gc'[q] = gc[q] \/ gc'[q].phase = "fence"
        /\ gc[q].phase # "none" => gc'[q] = gc[q]
  BY GcOfRetired
<1>4. \/ row'[r].state = "gone"
      \/ row'[r].state = "sealed" /\ row[r].state = "sealed" /\ row'[r].deleted = 1
         /\ row'[r].accepted = row[r].accepted
  BY <1>1 DEF GoneRow, FreeRow, IInv, TypeOK, RowType
<1>5. \/ gc'[r].phase # "none"
      \/ row[r].state = "sealed" /\ Owned(r) = {} /\ row[r].deleted = 0
      \/ row[r].state = "sealed" /\ row[r].deleted = 1
  <2>1. CASE row[r].state = "pending"
    <3>1. Expired(r) /\ ~RawDue(r)
      BY <1>2, <2>1 DEF Due, RawDue, IdentityDue
    <3> QED
      BY <1>1, <3>1 DEF PendingGc
  <2>2. CASE row[r].state = "sealed" /\ row[r].deleted = 0
    <3>1. RawDue(r)
      BY <1>2, <2>2, TimeAssumption
         DEF Due, Expired, RawDue, IdentityDue, IInv, TypeOK, RowType
    <3>2. row[r].accepted # {} => gc'[r].phase # "none"
      BY <1>1, <2>2, <3>1 DEF RetiredGc, IInv, TypeOK, Phase
    <3>3. row[r].accepted = Owned(r)
      BY <2>2 DEF Claims, AcceptedExact
    <3> QED
      BY <2>2, <3>2, <3>3
  <2>3. row[r].deleted \in {0, 1}
    BY DEF IInv, TypeOK, RowType
  <2> QED
    BY <1>1, <2>1, <2>2, <2>3 DEF Live
<1>6. StoredOwned'
  <2> SUFFICES ASSUME NEW q \in Reservation, Live(q)', row'[q].deleted = 0,
                      object[q].kind # "absent"
               PROVE  Owned(q)' # {}
    BY <1>2 DEF StoredOwned
  <2>1. q # r
    BY <1>4 DEF Live
  <2>2. row'[q] = row[q] /\ Live(q)
    BY <1>1, <2>1 DEF Live
  <2>3. PICK e \in row[q].input : claim[IdOf(e)].owner = q
    BY <2>2 DEF Stored, StoredOwned, Owned
  <2>4. IdOf(e) \in Id
    BY EventAssumption DEF IInv, TypeOK, RowType
  <2>5. claim'[IdOf(e)] = claim[IdOf(e)]
    BY <2>1, <2>3, <2>4, RetireEffect
  <2> QED
    BY <2>2, <2>3, <2>5 DEF Owned
<1>7. WriterAwaited'
  <2> SUFFICES ASSUME NEW v \in Worker, worker[v].pc \in {"reserved", "put"},
                      Retired(worker[v].res)',
                      worker[v].pc = "reserved" =>
                        /\ row'[worker[v].res].accepted # {}
                        /\ row'[worker[v].res].state = "sealed"
               PROVE  gc'[worker[v].res].phase # "none"
    BY <1>2 DEF WriterAwaited, Retired
  <2>1. worker[v].res \in Reservation
    BY DEF IInv, Requests, WorkerBatch
  <2>2. CASE worker[v].res # r
    BY <1>1, <1>2, <2>1, <2>2 DEF Stored, WriterAwaited, Retired
  <2>3. CASE worker[v].res = r
    <3>1. CASE row[r].state = "sealed" /\ row[r].deleted = 1
      <4>1. gc[r].phase # "none"
        BY <1>2, <1>4, <2>3, <3>1 DEF Stored, WriterAwaited, Retired
      <4> QED
        BY <1>3, <2>3, <4>1
    <3>2. CASE row[r].state = "sealed" /\ Owned(r) = {} /\ row[r].deleted = 0
      <4>1. worker[v].pc = "put" => FALSE
        BY <1>1, <2>3, <3>2 DEF Claims, OwnedExact, PutNonEmpty
      <4>2. row[r].accepted = {}
        BY <3>2 DEF Claims, AcceptedExact
      <4> QED
        BY <1>4, <2>3, <4>1, <4>2
    <3> QED
      BY <1>5, <2>3, <3>1, <3>2
  <2> QED
    BY <2>2, <2>3
<1>8. CleanedSo'
  BY <1>2 DEF Stored, CleanedSo
<1>9. Fenced'
  BY <1>2, <1>3 DEF Stored, Fenced
<1>10. NoOrphan'
  <2> SUFFICES ASSUME NEW q \in Reservation, object[q].kind # "absent",
                      gc'[q].phase = "none"
               PROVE  Live(q)' /\ row'[q].deleted = 0
    BY <1>2 DEF NoOrphan
  <2>1. gc[q].phase = "none"
    BY <1>3
  <2>2. Live(q) /\ row[q].deleted = 0
    BY <2>1 DEF Stored, NoOrphan
  <2>3. q # r
    BY <1>5, <2>2 DEF Stored, StoredOwned
  <2> QED
    BY <1>1, <2>2, <2>3 DEF Live
<1> QED
  BY <1>6, <1>7, <1>8, <1>9, <1>10 DEF Stored

(* Cleaning: a fence covers a key that stays in the table, a delete spares *)
(* none that somebody may still write, and each is recorded while it lasts.*)
LEMMA StoredClean ==
  ASSUME IInv, EInv, NEW c \in Cleaner, Clean(c)
  PROVE  Stored'
<1> USE DEF EInv
<1>1. UNCHANGED <<now, row, claim, worker>>
  BY DEF Clean, PickGarbage, CleanObject, CleanRow, StopCleaner, database
<1>2. \A d \in Cleaner : cleaner[d].pc # "idle" =>
        cleaner[d].key \in Reservation /\ Retired(cleaner[d].key)
  BY DEF IInv, Objects, GarbageRetired
<1>3. \A d \in Cleaner : cleaner[d].pc # "idle" =>
        \/ Fencing(d) /\ cleaner[d].phase = "fence"
        \/ Deleting(d) /\ cleaner[d].phase = "delete"
  BY DEF Times, Lives, Fencing, Deleting
<1>4. CASE \/ \E r \in Reservation : PickGarbage(c, r)
           \/ StopCleaner(c)
  <2>1. UNCHANGED <<gc, object>>
    BY <1>4 DEF PickGarbage, StopCleaner, database
  <2>2. \A d \in Cleaner : cleaner'[d].pc = "row" => cleaner'[d] = cleaner[d]
    BY <1>4 DEF PickGarbage, StopCleaner, IInv, TypeOK, IdleCleaner
  <2>3. CleanedSo'
    BY <2>1, <2>2 DEF Stored, CleanedSo
  <2> QED
    BY <1>1, <2>1, <2>3 DEF Stored, StoredOwned, Owned, WriterAwaited, Fenced,
                            NoOrphan, Live, Retired
<1>5. CASE CleanObject(c)
  <2> DEFINE k == cleaner[c].key
  <2>1. /\ gc' = gc /\ cleaner[c].pc = "object"
        /\ object' = [object EXCEPT ![k] =
             IF cleaner[c].phase = "fence" THEN FenceObject ELSE NoObject]
        /\ cleaner' = [cleaner EXCEPT ![c].pc = "row"]
    BY <1>5 DEF CleanObject, database
  <2>2. k \in Reservation /\ Retired(k)
    BY <1>2, <2>1
  <2>3. /\ object'[k].kind = IF cleaner[c].phase = "fence" THEN "fence" ELSE "absent"
        /\ \A q \in Reservation : q # k => object'[q] = object[q]
    BY <2>1, <2>2 DEF FenceObject, NoObject, IInv, TypeOK
  <2>4. /\ \A d \in Cleaner : d # c => cleaner'[d] = cleaner[d]
        /\ cleaner'[c].key = k /\ cleaner'[c].phase = cleaner[c].phase
    BY <2>1 DEF IInv, TypeOK, CleanerType
  <2>5. \A d \in Cleaner : (cleaner[d].pc = "row" /\ cleaner[d].key = k) =>
          cleaner[d].phase = cleaner[c].phase
    BY <1>3, <2>1, Apart
  <2>6. /\ Fencing(c) => gc[k].phase \in {"fence", "delete"}
        /\ Deleting(c) => /\ gc[k].phase \in {"delete", "none"}
                          /\ gc[k].phase = "delete" => gc[k].at <= now
    <3>1. gc[k].at \in Nat /\ cleaner[c].started \in Nat /\ now \in Nat
      BY <2>2 DEF IInv, TypeOK, CleanerType
    <3>2. cleaner[c].started <= now
      BY <2>1 DEF Times, Lives
    <3> QED
      BY <3>1, <3>2 DEF Times, FenceAfter, DeleteAfter
  <2> HIDE DEF k
  <2>7. StoredOwned'
    BY <1>1, <2>2, <2>3 DEF Stored, StoredOwned, Owned, Live, Retired
  <2>8. CleanedSo'
    <3> SUFFICES ASSUME NEW d \in Cleaner, cleaner'[d].pc = "row"
                 PROVE  object'[cleaner'[d].key].kind =
                          IF cleaner'[d].phase = "fence" THEN "fence" ELSE "absent"
      BY DEF CleanedSo
    <3>1. CASE d = c
      BY <2>3, <2>4, <3>1
    <3>2. CASE d # c
      <4>1. cleaner'[d] = cleaner[d] /\ cleaner[d].key \in Reservation
        BY <1>2, <2>4, <3>2
      <4> QED
        BY <2>3, <2>5, <4>1 DEF Stored, CleanedSo
    <3> QED
      BY <3>1, <3>2
  <2>9. Fenced'
    <3>1. gc[k].phase = "delete" =>
            \/ object'[k].kind = "fence"
            \/ object'[k].kind = "absent" /\ gc[k].at <= now
      BY <1>3, <2>1, <2>3, <2>6
    <3> QED
      BY <1>1, <2>1, <2>3, <3>1 DEF Stored, Fenced
  <2>10. NoOrphan'
    <3>1. object'[k].kind # "absent" => gc[k].phase # "none"
      BY <1>3, <2>1, <2>3, <2>6
    <3> QED
      BY <1>1, <2>1, <2>3, <3>1 DEF Stored, NoOrphan, Live
  <2> QED
    BY <1>1, <2>1, <2>7, <2>8, <2>9, <2>10 DEF Stored, WriterAwaited, Retired
<1>6. CASE CleanRow(c)
  <2> DEFINE k == cleaner[c].key
  <2>1. /\ object' = object /\ cleaner[c].pc = "row"
        /\ gc' = [gc EXCEPT ![k] =
             IF @.phase # cleaner[c].phase THEN @
             ELSE IF @.phase = "fence"
               THEN [phase |-> "delete", at |-> TombstoneEnd(c)]
             ELSE NoGc]
        /\ cleaner' = [cleaner EXCEPT ![c] = IdleCleaner]
    BY <1>6 DEF CleanRow
  <2>2. k \in Reservation
    BY <1>2, <2>1
  <2>3. /\ \A q \in Reservation : q # k => gc'[q] = gc[q]
        /\ \/ gc'[k] = gc[k]
           \/ /\ gc'[k].phase = "delete" /\ cleaner[c].phase = "fence"
           \/ /\ gc'[k].phase = "none" /\ cleaner[c].phase = "delete"
              /\ gc[k].phase = "delete"
    <3>1. gc'[k] = IF gc[k].phase # cleaner[c].phase THEN gc[k]
                   ELSE IF gc[k].phase = "fence"
                     THEN [phase |-> "delete", at |-> TombstoneEnd(c)]
                   ELSE NoGc
      BY <2>1, <2>2 DEF IInv, TypeOK
    <3>2. \A q \in Reservation : q # k => gc'[q] = gc[q]
      BY <2>1 DEF IInv, TypeOK
    <3> QED
      BY <1>3, <2>1, <3>1, <3>2 DEF NoGc
  <2>4. \A d \in Cleaner : cleaner'[d].pc = "row" => cleaner'[d] = cleaner[d]
    BY <2>1 DEF IInv, TypeOK, IdleCleaner
  <2>5. object[k].kind = IF cleaner[c].phase = "fence" THEN "fence" ELSE "absent"
    BY <2>1 DEF Stored, CleanedSo
  <2>6. ASSUME Deleting(c), NEW v \in Worker, worker[v].pc \in {"reserved", "put"}
        PROVE  worker[v].res # k
    BY <2>6, NoWriterLeft DEF Writing
  <2>7. cleaner[c].phase = "delete" => Deleting(c)
    BY <2>1 DEF Deleting
  <2> HIDE DEF k
  <2>8. CleanedSo'
    BY <2>1, <2>4 DEF Stored, CleanedSo
  <2>9. WriterAwaited'
    <3> SUFFICES ASSUME NEW v \in Worker, worker[v].pc \in {"reserved", "put"},
                        Retired(worker[v].res),
                        worker[v].pc = "reserved" =>
                          /\ row[worker[v].res].accepted # {}
                          /\ row[worker[v].res].state = "sealed"
                 PROVE  gc'[worker[v].res].phase # "none"
      BY <1>1 DEF WriterAwaited, Retired
    <3>1. gc[worker[v].res].phase # "none" /\ worker[v].res \in Reservation
      BY DEF Stored, WriterAwaited, Retired, IInv, Requests, WorkerBatch
    <3>2. CASE worker[v].res # k
      BY <2>3, <3>1, <3>2
    <3>3. CASE worker[v].res = k
      <4>1. cleaner[c].phase # "delete"
        BY <2>6, <2>7, <3>3
      <4> QED
        BY <2>3, <3>1, <3>3, <4>1
    <3> QED
      BY <3>2, <3>3
  <2>10. Fenced'
    BY <1>1, <2>1, <2>3, <2>5 DEF Stored, Fenced
  <2>11. NoOrphan'
    BY <1>1, <2>1, <2>3, <2>5 DEF Stored, NoOrphan, Live
  <2> QED
    BY <1>1, <2>1, <2>8, <2>9, <2>10, <2>11 DEF Stored, StoredOwned, Owned, Live
<1> QED
  BY <1>4, <1>5, <1>6 DEF Clean
-----------------------------------------------------------------------------
(* The theorems                                                            *)

(* No receipt, object or run exists at the start.                          *)
LEMMA EInit == Init => EInv
<1> SUFFICES ASSUME Init PROVE EInv
  OBVIOUS
<1>1. Claims
  BY DEF Init, Claims, Held, ClaimsRecent, AcceptedExact, OwnedExact, PutNonEmpty,
         DeletedSealed, Live, FreeRow, NoClaim, IdleWorker
<1>2. Times
  BY DEF Init, Times, Lives, TombstoneLasts, FenceAfter, DeleteAfter, Fencing,
         Deleting, NoGc, IdleWorker, IdleCleaner
<1>3. Stored
  BY DEF Init, Stored, StoredOwned, WriterAwaited, CleanedSo, Fenced, NoOrphan,
         Live, FreeRow, NoGc, NoObject, IdleWorker, IdleCleaner
<1> QED
  BY <1>1, <1>2, <1>3 DEF EInv

(* Every step keeps the three parts, each with the help of the others.     *)
LEMMA EStep == IInv /\ EInv /\ [Next]_vars => EInv'
<1> SUFFICES ASSUME IInv, EInv, [Next]_vars PROVE EInv'
  OBVIOUS
<1>1. Claims'
  BY ClaimsStep DEF EInv
<1>2. Times'
  BY TimesStep DEF EInv
<1>3. Stored'
  <2>1. CASE \E w \in Worker : Request(w)
    BY <2>1, StoredRequest
  <2>2. CASE \E c \in Cleaner : Clean(c)
    BY <2>2, StoredClean
  <2>3. CASE \E r \in Reservation : RetireReceipt(r)
    BY <2>3, StoredRetire
  <2>4. CASE Tick \/ UNCHANGED vars
    <3>1. /\ UNCHANGED <<row, claim, gc, object, worker, cleaner>>
          /\ now' = now \/ now' = now + 1
      BY <2>4 DEF Tick, vars, database
    <3>2. \A r \in Reservation : gc[r].at <= now => gc[r].at <= now'
      BY <3>1 DEF IInv, TypeOK
    <3> QED
      BY <3>1, <3>2 DEF EInv, Stored, StoredOwned, Owned, WriterAwaited, CleanedSo,
                        Fenced, NoOrphan, Live, Retired
  <2> QED
    BY <2>1, <2>2, <2>3, <2>4 DEF Next
<1> QED
  BY <1>1, <1>2, <1>3 DEF EInv

(* What may still happen to an object is known in every reachable state.   *)
THEOREM ErasureInvariant == Spec => []EInv
<1>1. Init => EInv
  BY EInit
<1>2. IInv /\ EInv /\ [Next]_vars => EInv'
  BY EStep
<1> QED
  BY <1>1, <1>2, Invariant, PTL DEF Spec

(* An object in R2 always has a receipt that will retire it or an entry of *)
(* product_object_gc that will remove it, however late a request stores it.*)
THEOREM NothingOrphaned == Spec => []NoOrphan
<1>1. EInv => NoOrphan
  BY DEF EInv, Stored
<1> QED
  BY <1>1, ErasureInvariant, PTL

(* Once its fence is recorded a key never holds event bytes again.         *)
THEOREM ErasedForGood == Spec => []Erased
<1>1. EInv => Erased
  BY DEF EInv, Stored, Fenced, Erased
<1> QED
  BY <1>1, ErasureInvariant, PTL
=============================================================================
