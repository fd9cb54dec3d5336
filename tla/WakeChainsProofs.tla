--------------------------- MODULE WakeChainsProofs ---------------------------
(***************************************************************************)
(* Proofs about the wake chains: two runs of the product archive do not    *)
(* overlap, and a row never waits for a message nobody carries, for any    *)
(* number of tokens, consumers, requests and failures and any time scale.  *)
(***************************************************************************)
EXTENDS WakeChains, FiniteSetTheorems, TLAPS

\* What an actor holds where: a claim is for a token, only consumers have
\* messages, and a new token lives from its reservation to its send.
Claimers == {"check", "consume", "look", "running", "ended"}
Callers == {"maintain", "sending", "restoring"}
Shape ==
  \A a \in Actor :
    /\ actor[a].pc = "idle" => actor[a].batch = {} /\ actor[a].msg = None
    /\ actor[a].pc \in Claimers => a \in Consumer /\ actor[a].msg \in Token
    /\ actor[a].pc \in {"next", "failed"} => a \in Consumer
    /\ actor[a].pc \in Callers \union {"failed"} /\ a \in Consumer =>
         actor[a].msg \in Message
    /\ actor[a].pc \in {"sending", "restoring"} => actor[a].token \in Token
    /\ actor[a].pc \notin {"sending", "restoring", "failed"} => actor[a].token = None
    /\ a \notin Consumer => actor[a].batch = {} /\ actor[a].msg = None

\* A consumer that owns a run holds the row, with what its age leaves of the
\* lease, and no other does.
OneOwner ==
  {"overrun", "seized"} \intersect seen = {} =>
    /\ \A v \in Owning : /\ Processing(actor[v].msg)
                         /\ row.left + actor[v].age = Lease
                         /\ actor[v].age < Lease
    /\ \A v, u \in Owning : v = u

\* Who carries a token on: a batch, a consumer that has yet to claim, process
\* or give back the row, or a caller that has yet to send.
CarriedBy(a, t) ==
  \/ t \in actor[a].batch
  \/ /\ row.processing /\ actor[a].msg = t
     /\ actor[a].pc \in Claimers \union {"maintain", "failed"}
  \/ /\ ~row.processing /\ actor[a].msg = t
     /\ actor[a].pc \in {"check", "consume", "failed"}
  \/ /\ ~row.processing /\ actor[a].token = t
     /\ actor[a].pc \in {"sending", "restoring"}
ChainKept ==
  {"lost", "raced"} \intersect seen # {} \/ row.token = None
    \/ queue[row.token] # None \/ \E a \in Actor : CarriedBy(a, row.token)

PInv == TypeOK /\ Shape /\ OneOwner /\ ChainKept
-----------------------------------------------------------------------------
\* What a caller goes on with is an actor's record.
ActorRecord ==
  [pc : {"idle", "next", "check", "consume", "look", "running", "ended",
         "maintain", "sending", "restoring", "failed"},
   batch : SUBSET Message, msg : Message \union {None},
   token : Token \union {None}, ran : BOOLEAN, age : 0..Life]

Queues == [Message -> 0..(Delay + Pause) \union {None}]

LEMMA PutType ==
  ASSUME TypeOK, NEW m, NEW d \in {Delay, Delay + Pause, None}
  PROVE  Put(m, d) \in Queues
<1>1. d \in 0..(Delay + Pause) \union {None}
  BY MaintenanceAssumption
<1>2. queue \in Queues
  BY DEF TypeOK, Queues
<1> QED
  BY <1>1, <1>2 DEF Put, Queues

PC == {"idle", "next", "check", "consume", "look", "running", "ended",
       "maintain", "sending", "restoring", "failed"}

LEMMA GotoType ==
  ASSUME TypeOK, NEW a \in Actor, NEW pc \in PC
  PROVE  Goto(a, pc) \in [Actor -> ActorRecord]
<1>1. actor \in [Actor -> ActorRecord] /\ actor[a] \in ActorRecord
  BY DEF TypeOK, ActorRecord
<1>2. [actor[a] EXCEPT !.pc = pc] \in ActorRecord
  BY <1>1 DEF ActorRecord, PC
<1> HIDE DEF ActorRecord
<1> QED
  BY <1>1, <1>2 DEF Goto

LEMMA MessageType ==
  ASSUME TypeOK, NEW a \in Actor, NEW pc \in PC, NEW msg \in Message \union {None}
  PROVE  [actor EXCEPT ![a].pc = pc, ![a].msg = msg] \in [Actor -> ActorRecord]
<1>1. actor \in [Actor -> ActorRecord] /\ actor[a] \in ActorRecord
  BY DEF TypeOK, ActorRecord
<1>2. [actor[a] EXCEPT !.pc = pc, !.msg = msg] \in ActorRecord
  BY <1>1 DEF ActorRecord, PC
<1> HIDE DEF ActorRecord
<1> QED
  BY <1>1, <1>2

LEMMA TokenType ==
  ASSUME TypeOK, NEW a \in Actor, NEW pc \in PC, NEW token \in Token \union {None}
  PROVE  [actor EXCEPT ![a].pc = pc, ![a].token = token] \in [Actor -> ActorRecord]
<1>1. actor \in [Actor -> ActorRecord] /\ actor[a] \in ActorRecord
  BY DEF TypeOK, ActorRecord
<1>2. [actor[a] EXCEPT !.pc = pc, !.token = token] \in ActorRecord
  BY <1>1 DEF ActorRecord, PC
<1> HIDE DEF ActorRecord
<1> QED
  BY <1>1, <1>2

LEMMA ThrownType ==
  ASSUME TypeOK, NEW a \in Actor
  PROVE  Thrown(a) \in [Actor -> ActorRecord]
<1>1. Goto(a, "failed") \in [Actor -> ActorRecord]
  BY GotoType DEF PC
<1>2. actor \in [Actor -> ActorRecord] /\ Idle \in ActorRecord
  BY MaintenanceAssumption DEF TypeOK, ActorRecord, Idle
<1> HIDE DEF ActorRecord
<1> QED
  BY <1>1, <1>2 DEF Thrown

LEMMA ReturnedType ==
  ASSUME TypeOK, NEW a \in Actor
  PROVE  Returned(a) \in [Actor -> ActorRecord]
<1> DEFINE acked == [actor[a] EXCEPT !.pc = "next", !.msg = None, !.token = None,
                       !.ran = actor[a].ran \/ actor[a].msg # Legacy]
<1>1. actor \in [Actor -> ActorRecord]
  BY DEF TypeOK, ActorRecord
<1>2. (actor[a].ran \/ actor[a].msg # Legacy) \in BOOLEAN
  OBVIOUS
<1>3. acked \in ActorRecord
  <2> DEFINE ran == actor[a].ran \/ actor[a].msg # Legacy
  <2>1. ran \in BOOLEAN
    BY <1>2
  <2> HIDE DEF ran
  <2>2. [actor[a] EXCEPT !.pc = "next", !.msg = None, !.token = None, !.ran = ran]
          \in ActorRecord
    BY <1>1, <2>1 DEF ActorRecord
  <2> QED
    BY <2>2 DEF ran
<1>4. Acked(a) = [actor EXCEPT ![a] = acked]
  BY <1>1 DEF Acked, ActorRecord
<1>5. Acked(a) \in [Actor -> ActorRecord]
  <2> HIDE DEF acked
  <2> QED
    BY <1>1, <1>3, <1>4
<1>6. [actor EXCEPT ![a] = Idle] \in [Actor -> ActorRecord]
  <2>1. Idle \in ActorRecord
    BY MaintenanceAssumption DEF Idle, ActorRecord
  <2> HIDE DEF ActorRecord
  <2> QED
    BY <1>1, <2>1
<1> QED
  BY <1>5, <1>6 DEF Returned

\* A step of one actor that leaves the row alone keeps the owners, unless it
\* makes the actor one.
LEMMA OwnersKeep ==
  ASSUME OneOwner, NEW a \in Actor,
         \A b \in Actor : b # a => actor'[b] = actor[b],
         a \in Owning' => /\ a \in Owning
                          /\ actor'[a].msg = actor[a].msg /\ actor'[a].age = actor[a].age,
         row' = row, {"overrun", "seized"} \intersect seen \subseteq seen'
  PROVE  OneOwner'
<1>1. Owning' \subseteq Owning
  BY DEF Owning, Running, Continuing, Actor
<1>2. \A v \in Owning' : actor'[v].msg = actor[v].msg /\ actor'[v].age = actor[v].age
  BY DEF Owning, Running, Continuing, Actor
<1>3. {"overrun", "seized"} \intersect seen' = {} => {"overrun", "seized"} \intersect seen = {}
  OBVIOUS
<1> QED
  BY <1>1, <1>2, <1>3 DEF OneOwner, Processing

\* So does a step of one actor that is an owner or finds none, and leaves none.
LEMMA OwnersEnd ==
  ASSUME OneOwner, NEW a \in Actor,
         \A b \in Actor : b # a => actor'[b] = actor[b],
         a \notin Owning',
         {"overrun", "seized"} \intersect seen = {} => Owning \subseteq {a},
         {"overrun", "seized"} \intersect seen \subseteq seen'
  PROVE  OneOwner'
<1>1. Owning' \subseteq Owning \ {a}
  BY DEF Owning, Running, Continuing, Actor
<1>2. {"overrun", "seized"} \intersect seen' = {} => {"overrun", "seized"} \intersect seen = {}
  OBVIOUS
<1> QED
  BY <1>1, <1>2 DEF OneOwner

\* A step that keeps the row's token, and with it whoever carries it.
LEMMA ChainKeeps ==
  ASSUME ChainKept, NEW a \in Actor,
         \A b \in Actor : b # a => actor'[b] = actor[b],
         row'.token = row.token, row'.processing = row.processing,
         row.token # None =>
           /\ queue[row.token] # None => \/ queue'[row.token] # None
                                         \/ CarriedBy(a, row.token)'
                                         \/ {"lost", "raced"} \intersect seen' # {}
           /\ CarriedBy(a, row.token) => \/ queue'[row.token] # None
                                         \/ CarriedBy(a, row.token)'
                                         \/ {"lost", "raced"} \intersect seen' # {},
         {"lost", "raced"} \intersect seen \subseteq seen'
  PROVE  ChainKept'
<1> SUFFICES ASSUME {"lost", "raced"} \intersect seen' = {}, row.token # None,
                    queue'[row.token] = None
             PROVE  \E b \in Actor : CarriedBy(b, row.token)'
  BY DEF ChainKept
<1>1. \/ queue[row.token] # None
      \/ \E b \in Actor : CarriedBy(b, row.token)
  BY DEF ChainKept
<1>2. \A b \in Actor : b # a /\ CarriedBy(b, row.token) => CarriedBy(b, row.token)'
  BY DEF CarriedBy
<1> QED
  BY <1>1, <1>2

LEMMA InitPInv == Init => PInv
<1> SUFFICES ASSUME Init PROVE PInv
  OBVIOUS
<1> USE MaintenanceAssumption
<1>1. TypeOK
  BY DEF Init, TypeOK, Idle, Message
<1>2. Shape
  BY DEF Init, Shape, Idle, Claimers, Callers
<1>3. Owning = {}
  BY DEF Init, Owning, Running, Continuing, Idle, Actor
<1> QED
  BY <1>1, <1>2, <1>3 DEF PInv, OneOwner, ChainKept, Init
-----------------------------------------------------------------------------
(* maintainProductArchive                                                  *)

\* A caller that takes the row owns it already, or the lease is over or there
\* is none, so that no run owns it; the token it draws is in its hand.
LEMMA MaintainKeeps ==
  ASSUME PInv, NEW a \in Actor, Maintain(a)
  PROVE  PInv'
<1> USE MaintenanceAssumption
<1>1. a \notin Owning' /\ \A b \in Actor : b # a => actor'[b] = actor[b]
  BY DEF PInv, TypeOK, Maintain, Returned, Acked, Idle, Owning, Running, Continuing
<1>2. CASE Takeable(a)
  <2>1. /\ Drawn \in Token /\ Fresh(Drawn)
        /\ row' = WakeRow(Drawn, Lease)
        /\ actor' = [actor EXCEPT ![a].pc = "sending", ![a].token = Drawn]
        /\ seen' = seen \ {"lost", "raced"}
        /\ UNCHANGED <<queue, due, cron, faults>>
    BY <1>2 DEF Maintain, Drawn
  <2> HIDE DEF Drawn
  <2>2. TypeOK'
    <3>1. row' \in [token : Token \union {None}, processing : BOOLEAN, left : 0..Lease]
      BY <2>1 DEF WakeRow
    <3>2. actor' \in [Actor -> ActorRecord]
      BY <2>1, TokenType DEF PInv, PC
    <3> QED
      BY <2>1, <3>1, <3>2 DEF PInv, TypeOK, ActorRecord
  <2>3. Shape'
    BY <2>1 DEF PInv, TypeOK, Shape, Maintain, Claimers, Callers
  <2>4. {"overrun", "seized"} \intersect seen = {} => Owning \subseteq {a}
    <3> SUFFICES ASSUME {"overrun", "seized"} \intersect seen = {}, NEW v \in Owning
                 PROVE  v = a
      OBVIOUS
    <3>1. Processing(actor[v].msg) /\ row.left > 0 /\ actor[v].msg # None
      <4>1. v \in Actor /\ actor[v].msg \in Message
        BY DEF PInv, Shape, Owning, Running, Continuing, Claimers, Callers, Actor, Message
      <4>2. row.left \in Nat /\ actor[v].age \in Nat
        BY <4>1 DEF PInv, TypeOK
      <4> QED
        BY <4>1, <4>2 DEF PInv, OneOwner
    <3>2. OwnsPrevious(a)
      BY <1>2, <3>1 DEF Takeable, Processing
    <3>3. a \in Owning
      BY <3>2 DEF OwnsPrevious, Maintain, Owning, Continuing
    <3> QED
      BY <3>3 DEF PInv, OneOwner
  <2>5. OneOwner'
    BY <1>1, <2>1, <2>4, OwnersEnd DEF PInv
  <2>6. ChainKept'
    <3>1. row'.token = Drawn /\ row'.processing = FALSE
      BY <2>1 DEF WakeRow
    <3>2. actor'[a].token = Drawn /\ actor'[a].pc = "sending"
      BY <2>1 DEF PInv, TypeOK
    <3> QED
      BY <3>1, <3>2 DEF ChainKept, CarriedBy
  <2> QED
    BY <2>2, <2>3, <2>5, <2>6 DEF PInv
<1>3. CASE ~Takeable(a)
  <2>1. actor' = Returned(a) /\ UNCHANGED <<row, seen, queue, due, cron, faults>>
    BY <1>3 DEF Maintain
  <2>2. TypeOK'
    BY <2>1, ReturnedType DEF PInv, TypeOK, ActorRecord
  <2>3. Shape'
    BY <2>1 DEF PInv, TypeOK, Shape, Returned, Acked, Idle, Maintain, Claimers, Callers
  <2>4. OneOwner'
    BY <1>1, <2>1, OwnersKeep DEF PInv
  <2>5. row.token # None /\ CarriedBy(a, row.token) => CarriedBy(a, row.token)'
    <3> SUFFICES ASSUME row.token # None, CarriedBy(a, row.token)
                 PROVE  CarriedBy(a, row.token)'
      OBVIOUS
    <3>1. row.token \in actor[a].batch
      BY <1>3 DEF PInv, TypeOK, Shape, CarriedBy, Maintain, Takeable, OwnsPrevious,
                  Processing, Claimers, Callers
    <3>2. a \in Consumer /\ actor'[a].batch = actor[a].batch
      BY <2>1, <3>1 DEF PInv, TypeOK, Shape, Returned, Acked
    <3> QED
      BY <2>1, <3>1, <3>2 DEF CarriedBy
  <2>6. ChainKept'
    BY <1>1, <2>1, <2>5, ChainKeeps DEF PInv
  <2> QED
    BY <2>2, <2>3, <2>4, <2>6 DEF PInv
<1> QED
  BY <1>2, <1>3

LEMMA SendKeeps ==
  ASSUME PInv, NEW a \in Actor, Send(a) \/ SendFails(a)
  PROVE  PInv'
<1> USE MaintenanceAssumption
<1>1. a \notin Owning /\ a \notin Owning'
  BY DEF PInv, TypeOK, Send, SendFails, Returned, Acked, Idle, Goto, Owning, Running,
         Continuing
<1>2. \A b \in Actor : b # a => actor'[b] = actor[b]
  BY DEF PInv, TypeOK, Send, SendFails, Returned, Acked, Goto
<1>3. actor[a].token \in Token /\ UNCHANGED <<row, seen>>
  BY DEF PInv, Shape, Send, SendFails
<1>4. TypeOK'
  <2>1. CASE Send(a)
    BY <2>1, ReturnedType, PutType DEF PInv, TypeOK, ActorRecord, Queues, Send
  <2>2. CASE SendFails(a)
    BY <2>2 DEF PInv, TypeOK, SendFails, Put, Goto, Fault, Message
  <2> QED
    BY <2>1, <2>2
<1>5. Shape'
  <2>1. CASE Send(a)
    BY <2>1 DEF PInv, TypeOK, Shape, Send, Returned, Acked, Idle, Claimers, Callers
  <2>2. CASE SendFails(a)
    BY <2>2 DEF PInv, TypeOK, Shape, SendFails, Goto, Claimers, Callers
  <2> QED
    BY <2>1, <2>2
<1>6. OneOwner'
  BY <1>1, <1>2, <1>3, OwnersKeep DEF PInv
<1>7. \A t \in Token : queue[t] # None => queue'[t] # None
  BY <1>3 DEF PInv, TypeOK, Send, SendFails, Put, Message
<1>8. ASSUME row.token # None, CarriedBy(a, row.token)
      PROVE  queue'[row.token] # None \/ CarriedBy(a, row.token)'
  <2>1. CASE Send(a)
    <3>1. CASE row.token \in actor[a].batch
      <4>1. a \in Consumer /\ actor'[a].batch = actor[a].batch
        BY <2>1, <3>1 DEF PInv, TypeOK, Shape, Send, Returned, Acked
      <4> QED
        BY <1>3, <3>1, <4>1 DEF CarriedBy
    <3>2. CASE row.token = actor[a].token
      BY <1>3, <2>1, <3>2 DEF PInv, TypeOK, Send, Put, Message
    <3> QED
      BY <1>8, <2>1, <3>1, <3>2 DEF CarriedBy, Send, Claimers
  <2>2. CASE SendFails(a)
    <3>1. /\ actor'[a].batch = actor[a].batch /\ actor'[a].token = actor[a].token
          /\ actor'[a].pc = "restoring"
      BY <2>2 DEF PInv, TypeOK, SendFails, Goto
    <3> QED
      BY <1>3, <1>8, <2>2, <3>1 DEF CarriedBy, SendFails, Claimers
  <2> QED
    BY <2>1, <2>2
<1>9. ChainKept'
  <2>1. row.token # None => row.token \in Token
    BY DEF PInv, TypeOK
  <2> QED
    BY <1>2, <1>3, <1>7, <1>8, <2>1, ChainKeeps DEF PInv
<1> QED
  BY <1>4, <1>5, <1>6, <1>9 DEF PInv

\* A statement that fails leaves the row to the consumed wake's redelivery, or
\* the new token's message is lost.
LEMMA MaintainThrowsKeeps ==
  ASSUME PInv, NEW a \in Actor, MaintainThrows(a)
  PROVE  PInv'
<1> USE MaintenanceAssumption
<1>1. a \notin Owning' /\ \A b \in Actor : b # a => actor'[b] = actor[b]
  BY DEF PInv, TypeOK, MaintainThrows, Thrown, Goto, Idle, Owning, Running, Continuing
<1>2. UNCHANGED <<row, queue, due, cron>>
  BY DEF MaintainThrows
<1>3. seen' = Noted("lost", row.token # None /\ row.token = actor[a].token)
  BY DEF MaintainThrows
<1>4. TypeOK'
  BY <1>2, <1>3, ThrownType DEF PInv, TypeOK, ActorRecord, MaintainThrows, Fault, Noted
<1>5. Shape'
  BY DEF PInv, TypeOK, Shape, MaintainThrows, Thrown, Goto, Idle, Claimers, Callers
<1>6. OneOwner'
  BY <1>1, <1>2, <1>3, OwnersKeep DEF PInv, Noted
<1>7. ASSUME row.token # None, CarriedBy(a, row.token)
      PROVE  \/ CarriedBy(a, row.token)'
             \/ {"lost", "raced"} \intersect seen' # {}
  <2>1. CASE row.token = actor[a].token
    BY <1>3, <1>7, <2>1 DEF Noted
  <2>2. CASE row.token # actor[a].token
    <3>1. a \in Consumer
      BY <1>7, <2>2 DEF PInv, Shape, CarriedBy
    <3>2. /\ actor'[a].batch = actor[a].batch /\ actor'[a].msg = actor[a].msg
          /\ actor'[a].pc = "failed"
      BY <3>1 DEF PInv, TypeOK, MaintainThrows, Thrown, Goto
    <3>3. actor[a].pc \in {"maintain", "restoring"}
      BY DEF MaintainThrows
    <3> QED
      BY <1>2, <1>7, <2>2, <3>2, <3>3 DEF CarriedBy
  <2> QED
    BY <2>1, <2>2
<1>8. ChainKept'
  BY <1>1, <1>2, <1>3, <1>7, ChainKeeps DEF PInv, Noted
<1> QED
  BY <1>4, <1>5, <1>6, <1>8 DEF PInv

\* The wake that a caller gives back is the one it consumed, whose message it
\* will retry.
LEMMA RestoreKeeps ==
  ASSUME PInv, NEW a \in Actor, Restore(a)
  PROVE  PInv'
<1> USE MaintenanceAssumption
<1>1. a \notin Owning' /\ \A b \in Actor : b # a => actor'[b] = actor[b]
  BY DEF PInv, TypeOK, Restore, Thrown, Goto, Idle, Owning, Running, Continuing
<1>2. UNCHANGED <<queue, due, cron, faults, seen>> /\ actor' = Thrown(a)
  BY DEF Restore
<1>3. Restored(a) \in Token \union {None}
  BY DEF PInv, TypeOK, Restored, Message
<1>4. TypeOK'
  BY <1>2, <1>3, ThrownType DEF PInv, TypeOK, ActorRecord, Restore, WakeRow
<1>5. Shape'
  BY DEF PInv, TypeOK, Shape, Restore, Thrown, Goto, Idle, Claimers, Callers
<1>6. CASE Wake(actor[a].token)
  <2>1. row' = WakeRow(Restored(a), 0)
    BY <1>6 DEF Restore
  <2>2. {"overrun", "seized"} \intersect seen = {} => Owning = {}
    BY <1>6 DEF PInv, OneOwner, Wake, Processing
  <2>3. OneOwner'
    BY <1>1, <1>2, <2>2, OwnersEnd DEF PInv
  <2>4. ChainKept'
    <3>1. CASE Restored(a) = None
      BY <2>1, <3>1 DEF ChainKept, WakeRow
    <3>2. CASE Restored(a) # None
      <4>1. a \in Consumer /\ Restored(a) = actor[a].msg
        BY <3>2 DEF Restored
      <4>2. actor'[a].pc = "failed" /\ actor'[a].msg = actor[a].msg
        BY <1>2, <4>1 DEF PInv, TypeOK, Thrown, Goto
      <4>3. row'.token = actor[a].msg /\ row'.processing = FALSE
        BY <2>1, <4>1 DEF WakeRow
      <4> QED
        BY <4>2, <4>3 DEF ChainKept, CarriedBy
    <3> QED
      BY <3>1, <3>2
  <2> QED
    BY <1>4, <1>5, <2>3, <2>4 DEF PInv
<1>7. CASE ~Wake(actor[a].token)
  <2>1. row' = row
    BY <1>7 DEF Restore
  <2>2. OneOwner'
    BY <1>1, <1>2, <2>1, OwnersKeep DEF PInv
  <2>3. ASSUME row.token # None, CarriedBy(a, row.token)
        PROVE  CarriedBy(a, row.token)'
    <3>1. row.token \in actor[a].batch
      BY <1>7, <2>3 DEF CarriedBy, Restore, Wake, Claimers
    <3>2. a \in Consumer /\ actor'[a].batch = actor[a].batch
      BY <1>2, <3>1 DEF PInv, TypeOK, Shape, Thrown, Goto
    <3> QED
      BY <2>1, <3>1, <3>2 DEF CarriedBy
  <2>4. ChainKept'
    BY <1>1, <1>2, <2>1, <2>3, ChainKeeps DEF PInv
  <2> QED
    BY <1>4, <1>5, <2>2, <2>4 DEF PInv
<1> QED
  BY <1>6, <1>7
-----------------------------------------------------------------------------
(* consumeProductMaintenance                                               *)

\* What is delivered is in the batch.
LEMMA DeliverKeeps ==
  ASSUME PInv, NEW v \in Consumer, NEW batch \in SUBSET Message, Deliver(v, batch)
  PROVE  PInv'
<1> USE MaintenanceAssumption
<1> DEFINE r == [Idle EXCEPT !.pc = "next", !.batch = batch]
<1>0. v \in Actor
  BY DEF Actor
<1>1. /\ r \in ActorRecord
      /\ r.pc = "next" /\ r.batch = batch /\ r.msg = None /\ r.token = None
  <2>1. Idle \in ActorRecord /\ Idle.msg = None /\ Idle.token = None
    BY DEF Idle, ActorRecord
  <2> QED
    BY <2>1 DEF ActorRecord
<1>2. actor' = [actor EXCEPT ![v] = r] /\ actor \in [Actor -> ActorRecord]
  BY DEF Deliver, PInv, TypeOK, ActorRecord
<1> HIDE DEF r
<1>3. actor'[v] = r /\ \A b \in Actor : b # v => actor'[b] = actor[b]
  BY <1>0, <1>2 DEF ActorRecord
<1>4. UNCHANGED <<row, due, cron, seen>>
  BY DEF Deliver
<1>5. \A m \in Message : queue'[m] = queue[m] \/ (queue'[m] = None /\ m \in batch)
  <2> SUFFICES ASSUME NEW m \in Message
               PROVE  queue'[m] = queue[m] \/ (queue'[m] = None /\ m \in batch)
    OBVIOUS
  <2>1. CASE queue' = [n \in Message |-> IF n \in batch THEN None ELSE queue[n]]
    BY <2>1
  <2>2. CASE \E d \in batch : queue' =
               [n \in Message |-> IF n \in batch \ {d} THEN None ELSE queue[n]]
    BY <2>2
  <2> QED
    BY <2>1, <2>2 DEF Deliver
<1>6. TypeOK'
  <2>1. actor' \in [Actor -> ActorRecord]
    <3> HIDE DEF ActorRecord
    <3> QED
      BY <1>0, <1>1, <1>2
  <2>2. queue' \in [Message -> 0..(Delay + Pause) \union {None}]
    <3>1. queue \in [Message -> 0..(Delay + Pause) \union {None}]
      BY DEF PInv, TypeOK
    <3> QED
      BY <3>1 DEF Deliver
  <2>3. faults' \in 0..Faults
    BY DEF PInv, TypeOK, Deliver, Fault
  <2> QED
    BY <1>4, <2>1, <2>2, <2>3 DEF PInv, TypeOK, ActorRecord
<1>7. Shape'
  <2>1. \A b \in Actor : b # v => actor'[b] = actor[b]
    BY <1>3
  <2> QED
    BY <1>1, <1>3, <2>1 DEF PInv, Shape, Claimers, Callers
<1>8. v \notin Owning'
  BY <1>1, <1>3 DEF Owning, Running, Continuing
<1>9. OneOwner'
  BY <1>0, <1>3, <1>4, <1>8, OwnersKeep DEF PInv
<1>10. ~CarriedBy(v, row.token) \/ row.token = None
  BY <1>0 DEF PInv, Shape, CarriedBy, Deliver, Claimers
<1>11. row.token # None /\ queue[row.token] # None
         => queue'[row.token] # None \/ CarriedBy(v, row.token)'
  <2>1. row.token # None => row.token \in Message
    BY DEF PInv, TypeOK, Message
  <2>2. actor'[v].batch = batch /\ row' = row
    BY <1>1, <1>3, <1>4
  <2> QED
    BY <1>5, <2>1, <2>2 DEF CarriedBy
<1>12. ChainKept'
  BY <1>0, <1>3, <1>4, <1>10, <1>11, ChainKeeps DEF PInv
<1> QED
  BY <1>6, <1>7, <1>9, <1>12 DEF PInv

\* A message leaves its batch for the loop's hand.
LEMMA LoopKeeps ==
  ASSUME PInv, NEW v \in Consumer, NextMessage(v) \/ EndBatch(v)
  PROVE  PInv'
<1> USE MaintenanceAssumption
<1>0. v \in Actor /\ actor \in [Actor -> ActorRecord] /\ actor[v] \in ActorRecord
  BY DEF Actor, PInv, TypeOK, ActorRecord
<1>1. CASE NextMessage(v)
  <2>1. PICK m \in actor[v].batch :
          actor' = [actor EXCEPT
            ![v].batch = @ \ {m}, ![v].msg = m,
            ![v].pc = IF m = Legacy THEN "maintain"
                      ELSE IF actor[v].ran THEN "check" ELSE "consume"]
    BY <1>1 DEF NextMessage
  <2> DEFINE pc == IF m = Legacy THEN "maintain"
                   ELSE IF actor[v].ran THEN "check" ELSE "consume"
             r == [actor[v] EXCEPT !.batch = @ \ {m}, !.msg = m, !.pc = pc]
  <2>2. /\ m \in Message /\ pc \in {"maintain", "check", "consume"}
        /\ pc = "maintain" <=> m = Legacy
    BY <1>0 DEF ActorRecord
  <2> HIDE DEF pc
  <2>3. /\ r \in ActorRecord /\ r.pc = pc /\ r.msg = m /\ r.token = actor[v].token
        /\ r.batch = actor[v].batch \ {m}
    BY <1>0, <2>2 DEF ActorRecord
  <2>4. actor' = [actor EXCEPT ![v] = r]
    BY <1>0, <2>1 DEF pc, ActorRecord
  <2> HIDE DEF r
  <2>5. actor'[v] = r /\ \A b \in Actor : b # v => actor'[b] = actor[b]
    BY <1>0, <2>4
  <2>6. UNCHANGED <<row, queue, due, cron, faults, seen>> /\ actor[v].pc = "next"
    BY <1>1 DEF NextMessage
  <2>7. TypeOK'
    <3>1. actor' \in [Actor -> ActorRecord]
      <4> HIDE DEF ActorRecord
      <4> QED
        BY <1>0, <2>3, <2>4
    <3> QED
      BY <2>6, <3>1 DEF PInv, TypeOK, ActorRecord
  <2>8. Shape'
    <3>1. actor[v].token = None /\ (m \in Token \/ m = Legacy)
      BY <1>0, <2>2, <2>6 DEF PInv, Shape, Message
    <3>2. \A b \in Actor : b # v => actor'[b] = actor[b]
      BY <2>5
    <3> QED
      BY <2>2, <2>3, <2>5, <3>1, <3>2 DEF PInv, Shape, Claimers, Callers
  <2>9. v \notin Owning'
    BY <2>2, <2>3, <2>5 DEF Owning, Running, Continuing
  <2>10. OneOwner'
    BY <1>0, <2>5, <2>6, <2>9, OwnersKeep DEF PInv
  <2>11. row.token # None /\ CarriedBy(v, row.token) => CarriedBy(v, row.token)'
    <3>1. row.token # None => row.token # Legacy
      BY DEF PInv, TypeOK
    <3> QED
      BY <2>2, <2>3, <2>5, <2>6, <3>1 DEF CarriedBy, Claimers
  <2>12. ChainKept'
    BY <1>0, <2>5, <2>6, <2>11, ChainKeeps DEF PInv
  <2> QED
    BY <2>7, <2>8, <2>10, <2>12 DEF PInv
<1>2. CASE EndBatch(v)
  <2>1. actor'[v] = Idle /\ \A b \in Actor : b # v => actor'[b] = actor[b]
    BY <1>0, <1>2 DEF EndBatch
  <2>2. UNCHANGED <<row, queue, due, cron, faults, seen>>
    BY <1>2 DEF EndBatch
  <2>3. TypeOK'
    <3>1. Idle \in ActorRecord
      BY DEF Idle, ActorRecord
    <3>2. actor' \in [Actor -> ActorRecord]
      <4> HIDE DEF ActorRecord
      <4> QED
        BY <1>0, <1>2, <3>1 DEF EndBatch
    <3> QED
      BY <2>2, <3>2 DEF PInv, TypeOK, ActorRecord
  <2>4. Shape'
    <3>1. \A b \in Actor : b # v => actor'[b] = actor[b]
      BY <2>1
    <3> QED
      BY <2>1, <3>1 DEF PInv, Shape, Claimers, Callers, Idle
  <2>5. v \notin Owning'
    BY <2>1 DEF Owning, Running, Continuing, Idle
  <2>6. OneOwner'
    BY <1>0, <2>1, <2>2, <2>5, OwnersKeep DEF PInv
  <2>7. row.token # None => ~CarriedBy(v, row.token)
    BY <1>0, <1>2 DEF CarriedBy, EndBatch, Claimers, PInv, Shape
  <2>8. ChainKept'
    BY <1>0, <2>1, <2>2, <2>7, ChainKeeps DEF PInv
  <2> QED
    BY <2>3, <2>4, <2>6, <2>8 DEF PInv
<1> QED
  BY <1>1, <1>2

LEMMA CheckKeeps ==
  ASSUME PInv, NEW v \in Consumer, Check(v)
  PROVE  PInv'
<1> USE MaintenanceAssumption
<1>0. v \in Actor /\ actor \in [Actor -> ActorRecord] /\ actor[v].pc = "check"
  BY DEF Actor, PInv, TypeOK, ActorRecord, Check
<1>1. actor[v].msg \in Token /\ actor[v].token = None
  BY <1>0 DEF PInv, Shape, Claimers
<1>2. UNCHANGED <<row, due, cron, faults, seen>>
  BY DEF Check
<1>3. /\ \A b \in Actor : b # v => actor'[b] = actor[b]
      /\ actor'[v].batch = actor[v].batch /\ actor'[v].token = None
      /\ \/ /\ Wake(actor[v].msg) /\ queue' = Put(actor[v].msg, Delay)
            /\ actor'[v].pc = "next" /\ actor'[v].msg = None
         \/ /\ actor'[v].pc = "consume" /\ actor'[v].msg = actor[v].msg
            /\ queue' = queue
  BY <1>0, <1>1 DEF Check, Goto, ActorRecord
<1>4. TypeOK'
  <2>1. actor' \in [Actor -> ActorRecord]
    <3>1. Goto(v, "consume") \in [Actor -> ActorRecord]
      BY <1>0, GotoType DEF PInv, PC
    <3>2. [actor EXCEPT ![v].pc = "next", ![v].msg = None] \in [Actor -> ActorRecord]
      BY <1>0, MessageType DEF PInv, PC
    <3> QED
      BY <3>1, <3>2 DEF Check
  <2>2. queue' \in Queues
    BY PutType DEF PInv, TypeOK, Queues, Check
  <2> QED
    BY <1>2, <2>1, <2>2 DEF PInv, TypeOK, ActorRecord, Queues
<1>5. Shape'
  BY <1>0, <1>1, <1>3 DEF PInv, Shape, Claimers, Callers
<1>6. v \notin Owning'
  BY <1>3 DEF Owning, Running, Continuing
<1>7. OneOwner'
  BY <1>0, <1>2, <1>3, <1>6, OwnersKeep DEF PInv
<1>8. \A t \in Token : queue[t] # None => queue'[t] # None
  BY <1>3 DEF PInv, TypeOK, Put, Message
<1>9. row.token # None /\ CarriedBy(v, row.token) =>
        queue'[row.token] # None \/ CarriedBy(v, row.token)'
  <2>1. Wake(actor[v].msg) /\ queue' = Put(actor[v].msg, Delay) =>
          queue'[row.token] # None
    BY <1>1 DEF PInv, TypeOK, Put, Message, Wake
  <2> QED
    BY <1>1, <1>2, <1>3, <2>1 DEF CarriedBy, Claimers
<1>10. ChainKept'
  <2>1. row.token # None => row.token \in Token
    BY DEF PInv, TypeOK
  <2> QED
    BY <1>0, <1>2, <1>3, <1>8, <1>9, <2>1, ChainKeeps DEF PInv
<1> QED
  BY <1>4, <1>5, <1>7, <1>10 DEF PInv

\* A claim finds the wake unclaimed, or the lease of its run at its end: no run
\* that kept to its lease owns the row.
LEMMA ConsumeKeeps ==
  ASSUME PInv, NEW v \in Consumer, Consume(v)
  PROVE  PInv'
<1> USE MaintenanceAssumption
<1> DEFINE t == actor[v].msg
<1>0. v \in Actor /\ actor \in [Actor -> ActorRecord] /\ actor[v].pc = "consume"
  BY DEF Actor, PInv, TypeOK, ActorRecord, Consume
<1>1. t \in Token /\ actor[v].token = None
  BY <1>0 DEF PInv, Shape, Claimers
<1>2. UNCHANGED <<queue, due, cron, faults, seen>>
  BY DEF Consume
<1>3. CASE Claimable(t)
  <2>1. /\ row' = [token |-> t, processing |-> TRUE, left |-> Lease]
        /\ actor' = [actor EXCEPT ![v].pc = "running", ![v].age = 0]
    BY <1>3 DEF Consume
  <2>2. /\ \A b \in Actor : b # v => actor'[b] = actor[b]
        /\ actor'[v].pc = "running" /\ actor'[v].age = 0 /\ actor'[v].msg = t
        /\ actor'[v].batch = actor[v].batch /\ actor'[v].token = None
    BY <1>0, <1>1, <2>1 DEF ActorRecord
  <2>3. TypeOK'
    <3>1. row' \in [token : Token \union {None}, processing : BOOLEAN, left : 0..Lease]
      BY <1>1, <2>1
    <3>2. [actor[v] EXCEPT !.pc = "running", !.age = 0] \in ActorRecord
      <4>1. actor[v] \in ActorRecord /\ 0 \in 0..Life
        BY <1>0
      <4> QED
        BY <4>1 DEF ActorRecord
    <3>3. actor' = [actor EXCEPT ![v] = [actor[v] EXCEPT !.pc = "running", !.age = 0]]
      BY <1>0, <2>1
    <3>4. actor' \in [Actor -> ActorRecord]
      <4> HIDE DEF ActorRecord
      <4> QED
        BY <1>0, <3>2, <3>3
    <3> QED
      BY <1>2, <3>1, <3>4 DEF PInv, TypeOK, ActorRecord
  <2>4. Shape'
    BY <1>0, <1>1, <2>2 DEF PInv, Shape, Claimers, Callers
  <2>5. OneOwner'
    <3> SUFFICES ASSUME {"overrun", "seized"} \intersect seen = {}
                 PROVE  /\ \A u \in Owning' : /\ Processing(actor[u].msg)'
                                              /\ row'.left + actor'[u].age = Lease
                                              /\ actor'[u].age < Lease
                        /\ \A u, x \in Owning' : u = x
      BY <1>2 DEF OneOwner
    <3>1. ASSUME NEW u \in Owning PROVE FALSE
      <4>1. Processing(actor[u].msg) /\ row.left > 0
        <5>1. u \in Actor
          BY DEF Owning, Running, Continuing, Actor
        <5>2. row.left \in Nat /\ actor[u].age \in Nat
          BY <5>1 DEF PInv, TypeOK
        <5> QED
          BY <5>2 DEF PInv, OneOwner
      <4> QED
        BY <1>3, <4>1 DEF Claimable, Wake, Processing
    <3>2. \A u \in Owning' : u = v
      BY <2>2, <3>1 DEF Owning, Running, Continuing, Actor
    <3>3. row'.token = actor'[v].msg /\ row'.processing /\ row'.left = Lease
      BY <2>1, <2>2
    <3>4. Lease + actor'[v].age = Lease /\ actor'[v].age < Lease
      BY <2>2
    <3> QED
      BY <3>2, <3>3, <3>4 DEF Processing
  <2>6. ChainKept'
    BY <1>0, <2>1, <2>2 DEF ChainKept, CarriedBy, Claimers
  <2> QED
    BY <2>3, <2>4, <2>5, <2>6 DEF PInv
<1>4. CASE ~Claimable(t)
  <2>1. row' = row /\ actor' = Goto(v, "look")
    BY <1>4 DEF Consume
  <2>2. /\ \A b \in Actor : b # v => actor'[b] = actor[b]
        /\ actor'[v].pc = "look" /\ actor'[v].msg = t
        /\ actor'[v].batch = actor[v].batch /\ actor'[v].token = None
    BY <1>0, <1>1, <2>1 DEF Goto, ActorRecord
  <2>3. TypeOK'
    BY <1>0, <1>2, <2>1, GotoType DEF PInv, TypeOK, ActorRecord, PC
  <2>4. Shape'
    BY <1>0, <1>1, <2>2 DEF PInv, Shape, Claimers, Callers
  <2>5. v \notin Owning'
    BY <2>2 DEF Owning, Running, Continuing
  <2>6. OneOwner'
    BY <1>0, <1>2, <2>1, <2>2, <2>5, OwnersKeep DEF PInv
  <2>7. row.token # None /\ CarriedBy(v, row.token) => CarriedBy(v, row.token)'
    BY <1>1, <1>4, <2>1, <2>2 DEF CarriedBy, Claimers, Claimable, Wake
  <2>8. ChainKept'
    BY <1>0, <1>2, <2>1, <2>2, <2>7, ChainKeeps DEF PInv
  <2> QED
    BY <2>3, <2>4, <2>6, <2>8 DEF PInv
<1> QED
  BY <1>3, <1>4

\* A redelivery that finds its wake being processed is retried, unless the
\* lease ended between its two reads.
LEMMA LookKeeps ==
  ASSUME PInv, NEW v \in Consumer, Look(v)
  PROVE  PInv'
<1> USE MaintenanceAssumption
<1>0. v \in Actor /\ actor \in [Actor -> ActorRecord] /\ actor[v].pc = "look"
  BY DEF Actor, PInv, TypeOK, ActorRecord, Look
<1>1. actor[v].msg \in Token /\ actor[v].token = None
  BY <1>0 DEF PInv, Shape, Claimers
<1>2. /\ UNCHANGED <<row, due, cron, faults>>
      /\ actor' = [actor EXCEPT ![v].pc = "next", ![v].msg = None]
      /\ queue' = IF Busy(actor[v].msg) THEN Put(actor[v].msg, Delay + Pause) ELSE queue
      /\ seen' = Noted("raced", Processing(actor[v].msg) /\ row.left = 0)
  BY DEF Look
<1>3. /\ \A b \in Actor : b # v => actor'[b] = actor[b]
      /\ actor'[v].batch = actor[v].batch /\ actor'[v].token = None
      /\ actor'[v].pc = "next" /\ actor'[v].msg = None
  BY <1>0, <1>1, <1>2 DEF ActorRecord
<1>4. TypeOK'
  <2>1. actor' \in [Actor -> ActorRecord]
    BY <1>0, <1>2, MessageType DEF PInv, PC
  <2>2. queue' \in Queues
    BY <1>2, PutType DEF PInv, TypeOK, Queues
  <2>3. seen' \subseteq {"overrun", "seized", "lost", "raced"}
    BY <1>2 DEF PInv, TypeOK, Noted
  <2> QED
    BY <1>2, <2>1, <2>2, <2>3 DEF PInv, TypeOK, ActorRecord, Queues
<1>5. Shape'
  BY <1>0, <1>1, <1>3 DEF PInv, Shape, Claimers, Callers
<1>6. v \notin Owning' /\ seen \subseteq seen'
  BY <1>2, <1>3 DEF Owning, Running, Continuing, Noted
<1>7. OneOwner'
  BY <1>0, <1>2, <1>3, <1>6, OwnersKeep DEF PInv
<1>8. \A t \in Token : queue[t] # None => queue'[t] # None
  BY <1>2 DEF PInv, TypeOK, Put, Message
<1>9. row.token # None /\ CarriedBy(v, row.token) =>
        \/ queue'[row.token] # None \/ CarriedBy(v, row.token)'
        \/ {"lost", "raced"} \intersect seen' # {}
  <2>1. Processing(actor[v].msg) /\ row.left = 0 => "raced" \in seen'
    BY <1>2 DEF Noted
  <2>2. Processing(actor[v].msg) /\ row.left # 0 => queue'[row.token] # None
    <3>1. row.left \in Nat
      BY DEF PInv, TypeOK
    <3> QED
      BY <1>1, <1>2, <3>1 DEF PInv, TypeOK, Put, Message, Processing, Busy
  <2>3. ASSUME ~Processing(actor[v].msg), row.token # None, CarriedBy(v, row.token)
        PROVE  CarriedBy(v, row.token)'
    BY <1>0, <1>1, <1>2, <1>3, <2>3 DEF CarriedBy, Claimers, Processing
  <2> QED
    BY <2>1, <2>2, <2>3
<1>10. ChainKept'
  <2>1. row.token # None => row.token \in Token
    BY DEF PInv, TypeOK
  <2> QED
    BY <1>0, <1>2, <1>3, <1>6, <1>8, <1>9, <2>1, ChainKeeps DEF PInv
<1> QED
  BY <1>4, <1>5, <1>7, <1>10 DEF PInv

\* A run goes on to what it does after its slice: it still owns the row.
LEMMA RunSliceKeeps ==
  ASSUME PInv, NEW v \in Consumer, RunSlice(v)
  PROVE  PInv'
<1> USE MaintenanceAssumption
<1>0. v \in Actor /\ actor \in [Actor -> ActorRecord] /\ actor[v].pc = "running"
  BY DEF Actor, PInv, TypeOK, ActorRecord, RunSlice
<1>1. actor[v].msg \in Token /\ actor[v].token = None /\ actor[v].msg \in Message
  BY <1>0 DEF PInv, Shape, Claimers, Message
<1>2. UNCHANGED <<row, queue, cron, faults, seen>>
  BY DEF RunSlice
<1>3. PICK pc \in {"maintain", "ended"} : actor' = Goto(v, pc)
  BY DEF RunSlice
<1>4. /\ \A b \in Actor : b # v => actor'[b] = actor[b]
      /\ actor'[v].batch = actor[v].batch /\ actor'[v].token = None
      /\ actor'[v].pc = pc /\ actor'[v].msg = actor[v].msg
      /\ actor'[v].age = actor[v].age
  BY <1>0, <1>1, <1>3 DEF Goto, ActorRecord
<1>5. TypeOK'
  <2>1. actor' \in [Actor -> ActorRecord]
    BY <1>0, <1>3, GotoType DEF PInv, PC
  <2>2. due' \in 0..Slices
    BY DEF PInv, TypeOK, RunSlice
  <2> QED
    BY <1>2, <2>1, <2>2 DEF PInv, TypeOK, ActorRecord
<1>6. Shape'
  BY <1>0, <1>1, <1>4 DEF PInv, Shape, Claimers, Callers
<1>7. OneOwner'
  <2>1. v \in Owning
    BY <1>0 DEF Owning, Running
  <2> QED
    BY <1>0, <1>2, <1>4, <2>1, OwnersKeep DEF PInv
<1>8. row.token # None /\ CarriedBy(v, row.token) => CarriedBy(v, row.token)'
  BY <1>0, <1>1, <1>2, <1>4 DEF CarriedBy, Claimers
<1>9. ChainKept'
  BY <1>0, <1>2, <1>4, <1>8, ChainKeeps DEF PInv
<1> QED
  BY <1>5, <1>6, <1>7, <1>9 DEF PInv

LEMMA EndChainKeeps ==
  ASSUME PInv, NEW v \in Consumer, EndChain(v)
  PROVE  PInv'
<1> USE MaintenanceAssumption
<1>0. v \in Actor /\ actor \in [Actor -> ActorRecord] /\ actor[v].pc = "ended"
  BY DEF Actor, PInv, TypeOK, ActorRecord, EndChain
<1>1. actor[v].msg \in Token /\ actor[v].token = None
  BY <1>0 DEF PInv, Shape, Claimers
<1>2. /\ UNCHANGED <<queue, due, cron, faults, seen>> /\ actor' = Acked(v)
      /\ row' = IF Processing(actor[v].msg) THEN WakeRow(None, 0) ELSE row
  BY DEF EndChain
<1>3. /\ \A b \in Actor : b # v => actor'[b] = actor[b]
      /\ actor'[v].batch = actor[v].batch /\ actor'[v].token = None
      /\ actor'[v].pc = "next" /\ actor'[v].msg = None
  BY <1>0, <1>1, <1>2 DEF Acked, ActorRecord
<1>4. TypeOK'
  <2>1. actor' \in [Actor -> ActorRecord]
    BY <1>0, <1>2, ReturnedType DEF PInv, Returned
  <2>2. row' \in [token : Token \union {None}, processing : BOOLEAN, left : 0..Lease]
    BY <1>2 DEF PInv, TypeOK, WakeRow
  <2> QED
    BY <1>2, <2>1, <2>2 DEF PInv, TypeOK, ActorRecord
<1>5. Shape'
  BY <1>0, <1>1, <1>3 DEF PInv, Shape, Claimers, Callers
<1>6. v \in Owning /\ v \notin Owning'
  BY <1>0, <1>3 DEF Owning, Running, Continuing
<1>7. OneOwner'
  BY <1>0, <1>2, <1>3, <1>6, OwnersEnd DEF PInv, OneOwner
<1>8. ChainKept'
  <2>1. CASE Processing(actor[v].msg)
    BY <1>2, <2>1 DEF ChainKept, WakeRow
  <2>2. CASE ~Processing(actor[v].msg)
    <3>1. row' = row
      BY <1>2, <2>2
    <3>2. row.token # None /\ CarriedBy(v, row.token) => CarriedBy(v, row.token)'
      BY <1>0, <1>1, <1>3, <2>2, <3>1 DEF CarriedBy, Claimers, Processing
    <3> QED
      BY <1>0, <1>2, <1>3, <3>1, <3>2, ChainKeeps DEF PInv
  <2> QED
    BY <2>1, <2>2
<1> QED
  BY <1>4, <1>5, <1>7, <1>8 DEF PInv

LEMMA ThrowKeeps ==
  ASSUME PInv, NEW v \in Consumer, Throw(v)
  PROVE  PInv'
<1> USE MaintenanceAssumption
<1>0. /\ v \in Actor /\ actor \in [Actor -> ActorRecord]
      /\ actor[v].pc \in Claimers
  BY DEF Actor, PInv, TypeOK, ActorRecord, Throw, Claimers
<1>1. actor[v].msg \in Token /\ actor[v].token = None /\ actor[v].msg \in Message
  BY <1>0 DEF PInv, Shape, Claimers, Message
<1>2. UNCHANGED <<row, queue, due, cron, seen>> /\ actor' = Goto(v, "failed")
  BY DEF Throw
<1>3. /\ \A b \in Actor : b # v => actor'[b] = actor[b]
      /\ actor'[v].batch = actor[v].batch /\ actor'[v].token = None
      /\ actor'[v].pc = "failed" /\ actor'[v].msg = actor[v].msg
  BY <1>0, <1>1, <1>2 DEF Goto, ActorRecord
<1>4. TypeOK'
  <2>1. actor' \in [Actor -> ActorRecord]
    BY <1>0, <1>2, GotoType DEF PInv, PC
  <2> QED
    BY <1>2, <2>1 DEF PInv, TypeOK, ActorRecord, Throw, Fault
<1>5. Shape'
  BY <1>0, <1>1, <1>3 DEF PInv, Shape, Claimers, Callers
<1>6. v \notin Owning'
  BY <1>3 DEF Owning, Running, Continuing
<1>7. OneOwner'
  BY <1>0, <1>2, <1>3, <1>6, OwnersKeep DEF PInv
<1>8. row.token # None /\ CarriedBy(v, row.token) => CarriedBy(v, row.token)'
  BY <1>0, <1>1, <1>2, <1>3 DEF CarriedBy, Claimers
<1>9. ChainKept'
  BY <1>0, <1>2, <1>3, <1>8, ChainKeeps DEF PInv
<1> QED
  BY <1>4, <1>5, <1>7, <1>9 DEF PInv

\* A failed delivery gives the row back to its message, which it retries: from
\* a run that owns the row that is a seizure.
LEMMA FailedKeeps ==
  ASSUME PInv, NEW v \in Consumer, Failed(v)
  PROVE  PInv'
<1> USE MaintenanceAssumption
<1> DEFINE m == actor[v].msg
<1>0. v \in Actor /\ actor \in [Actor -> ActorRecord] /\ actor[v].pc = "failed"
  BY DEF Actor, PInv, TypeOK, ActorRecord, Failed
<1>1. m \in Message
  BY <1>0 DEF PInv, Shape, Callers
<1>2. /\ UNCHANGED <<due, cron, faults>>
      /\ row' = IF m # Legacy /\ Processing(m) THEN Unclaimed(m) ELSE row
      /\ queue' = Put(m, Delay + Pause)
      /\ actor' = [actor EXCEPT ![v].pc = "next", ![v].msg = None, ![v].token = None]
      /\ seen' = Noted("seized", \E u \in Owning : u # v /\ Holds(u, m))
  BY DEF Failed
<1>3. /\ \A b \in Actor : b # v => actor'[b] = actor[b]
      /\ actor'[v].batch = actor[v].batch /\ actor'[v].token = None
      /\ actor'[v].pc = "next" /\ actor'[v].msg = None
  BY <1>0, <1>1, <1>2 DEF ActorRecord
<1>4. TypeOK'
  <2>1. actor' \in [Actor -> ActorRecord]
    <3> DEFINE r == [actor[v] EXCEPT !.pc = "next", !.msg = None, !.token = None]
    <3>1. actor[v] \in ActorRecord
      BY <1>0
    <3>2. r \in ActorRecord
      BY <3>1 DEF ActorRecord
    <3>3. actor' = [actor EXCEPT ![v] = r]
      BY <1>0, <1>2
    <3> HIDE DEF r, ActorRecord
    <3> QED
      BY <1>0, <3>2, <3>3
  <2>2. queue' \in Queues
    BY <1>2, PutType DEF PInv
  <2>3. row' \in [token : Token \union {None}, processing : BOOLEAN, left : 0..Lease]
    BY <1>1, <1>2 DEF PInv, TypeOK, Unclaimed, WakeRow, Message
  <2>4. seen' \subseteq {"overrun", "seized", "lost", "raced"}
    BY <1>2 DEF PInv, TypeOK, Noted
  <2> QED
    BY <1>2, <2>1, <2>2, <2>3, <2>4 DEF PInv, TypeOK, ActorRecord, Queues
<1>5. Shape'
  BY <1>0, <1>1, <1>3 DEF PInv, Shape, Claimers, Callers
<1>6. v \notin Owning /\ v \notin Owning' /\ seen \subseteq seen'
  BY <1>0, <1>2, <1>3 DEF Owning, Running, Continuing, Noted
<1>7. OneOwner'
  <2>1. CASE row' = row
    BY <1>0, <1>3, <1>6, <2>1, OwnersKeep DEF PInv
  <2>2. CASE row' # row
    <3>1. Processing(m)
      BY <1>2, <2>2
    <3>2. \A u \in Owning : {"overrun", "seized"} \intersect seen = {} => Holds(u, m)
      BY <3>1 DEF PInv, OneOwner, Processing, Holds
    <3>3. Owning' \subseteq Owning
      BY <1>3, <1>6 DEF Owning, Running, Continuing, Actor
    <3>4. ASSUME {"overrun", "seized"} \intersect seen' = {} PROVE Owning' = {}
      <4>1. {"overrun", "seized"} \intersect seen = {}
        BY <1>6, <3>4
      <4>2. "seized" \notin seen'
        BY <3>4
      <4> QED
        BY <1>2, <1>6, <3>2, <3>3, <4>1, <4>2 DEF Noted
    <3> QED
      BY <3>4 DEF OneOwner
  <2> QED
    BY <2>1, <2>2
<1>8. \A t \in Message : queue[t] # None => queue'[t] # None
  BY <1>2 DEF PInv, TypeOK, Put
<1>9. row'.token = row.token
  BY <1>2 DEF Unclaimed, WakeRow, Processing
<1>10. ChainKept'
  <2>1. CASE row.token = m
    <3>1. queue'[m] # None
      BY <1>1, <1>2 DEF PInv, TypeOK, Put
    <3> QED
      BY <1>9, <2>1, <3>1 DEF ChainKept
  <2>2. CASE row.token # m
    <3>1. row' = row
      BY <1>2, <2>2 DEF Processing
    <3>2. row.token # None => row.token \in Message
      BY DEF PInv, TypeOK, Message
    <3>3. CarriedBy(v, row.token) => CarriedBy(v, row.token)'
      BY <1>0, <1>3, <2>2, <3>1 DEF CarriedBy
    <3> QED
      BY <1>0, <1>3, <1>6, <1>8, <3>1, <3>2, <3>3, ChainKeeps DEF PInv
  <2> QED
    BY <2>1, <2>2
<1> QED
  BY <1>4, <1>5, <1>7, <1>10 DEF PInv
-----------------------------------------------------------------------------
(* The environment                                                         *)

\* The messages of an actor that dies are delivered again; of a new token that
\* it had yet to send, that is a loss.
LEMMA DieKeeps ==
  ASSUME PInv, NEW a \in Actor, Die(a)
  PROVE  PInv'
<1> USE MaintenanceAssumption
<1> DEFINE held == actor[a].batch \union {actor[a].msg}
<1>1. /\ UNCHANGED <<row, due, cron>> /\ actor' = [actor EXCEPT ![a] = Idle]
      /\ queue' = [m \in Message |-> IF m \in held THEN Delay ELSE queue[m]]
      /\ seen' = Noted("lost", row.token # None /\ row.token = actor[a].token)
  BY DEF Die
<1>2. actor'[a] = Idle /\ \A b \in Actor : b # a => actor'[b] = actor[b]
  BY <1>1 DEF PInv, TypeOK
<1>3. TypeOK'
  <2>1. actor \in [Actor -> ActorRecord] /\ Idle \in ActorRecord
    BY DEF PInv, TypeOK, ActorRecord, Idle
  <2>2. actor' \in [Actor -> ActorRecord]
    <3> HIDE DEF ActorRecord
    <3> QED
      BY <1>1, <2>1
  <2>3. queue' \in Queues
    <3>1. queue \in Queues /\ Delay \in 0..(Delay + Pause)
      BY DEF PInv, TypeOK, Queues
    <3> HIDE DEF held
    <3> QED
      BY <1>1, <3>1 DEF Queues
  <2>4. seen' \subseteq {"overrun", "seized", "lost", "raced"}
    BY <1>1 DEF PInv, TypeOK, Noted
  <2>5. faults' \in 0..Faults
    BY DEF PInv, TypeOK, Die, Fault
  <2> QED
    BY <1>1, <2>2, <2>3, <2>4, <2>5 DEF PInv, TypeOK, ActorRecord, Queues
<1>4. Shape'
  <2>1. \A b \in Actor : b # a => actor'[b] = actor[b]
    BY <1>2
  <2> QED
    BY <1>2, <2>1 DEF PInv, Shape, Idle, Claimers, Callers
<1>5. a \notin Owning' /\ seen \subseteq seen'
  BY <1>1, <1>2 DEF Owning, Running, Continuing, Idle, Noted
<1>6. OneOwner'
  BY <1>1, <1>2, <1>5, OwnersKeep DEF PInv
<1>7. \A m \in Message : queue[m] # None => queue'[m] # None
  BY <1>1
<1>8. row.token # None /\ CarriedBy(a, row.token) =>
        \/ queue'[row.token] # None \/ {"lost", "raced"} \intersect seen' # {}
  <2>1. row.token # None /\ row.token = actor[a].token => "lost" \in seen'
    BY <1>1 DEF Noted
  <2>2. row.token # None /\ row.token \in held => queue'[row.token] # None
    <3>1. row.token # None => row.token \in Message
      BY DEF PInv, TypeOK, Message
    <3>2. Delay # None
      OBVIOUS
    <3> HIDE DEF held
    <3> QED
      BY <1>1, <3>1, <3>2
  <2> QED
    BY <2>1, <2>2 DEF CarriedBy
<1>9. ChainKept'
  <2>1. row.token # None => row.token \in Message
    BY DEF PInv, TypeOK, Message
  <2> QED
    BY <1>1, <1>2, <1>5, <1>7, <1>8, <2>1, ChainKeeps DEF PInv
<1> QED
  BY <1>3, <1>4, <1>6, <1>9 DEF PInv

LEMMA LoseKeeps ==
  ASSUME PInv, NEW m \in Message, Lose(m)
  PROVE  PInv'
<1> USE MaintenanceAssumption
<1>1. /\ UNCHANGED <<row, actor, due, cron>> /\ queue' = Put(m, None)
      /\ seen' = Noted("lost", row.token = m)
  BY DEF Lose
<1>2. TypeOK'
  <2>1. queue' \in Queues
    BY <1>1, PutType DEF PInv
  <2>2. seen' \subseteq {"overrun", "seized", "lost", "raced"}
    BY <1>1 DEF PInv, TypeOK, Noted
  <2> QED
    BY <1>1, <2>1, <2>2 DEF PInv, TypeOK, Queues, Lose, Fault
<1>3. Shape'
  BY <1>1 DEF PInv, Shape
<1>4. seen \subseteq seen' /\ (row.token = m => "lost" \in seen')
  BY <1>1 DEF Noted
<1>5. OneOwner'
  BY <1>1, <1>4 DEF PInv, OneOwner, Owning, Running, Continuing, Processing
<1>6. row.token # m => queue'[row.token] = queue[row.token]
  BY <1>1 DEF PInv, TypeOK, Put
<1>7. ChainKept'
  <2>1. \A a \in Actor : CarriedBy(a, row.token)' = CarriedBy(a, row.token)
    BY <1>1 DEF CarriedBy
  <2> QED
    BY <1>1, <1>4, <1>6, <2>1 DEF PInv, ChainKept
<1> QED
  BY <1>2, <1>3, <1>5, <1>7 DEF PInv

LEMMA ArrivalKeeps ==
  ASSUME PInv, WorkArrives
  PROVE  PInv'
<1> USE MaintenanceAssumption
<1>1. UNCHANGED <<row, queue, actor, cron, faults, seen>> /\ due' \in 0..Slices
  BY DEF WorkArrives
<1>2. TypeOK' /\ Shape'
  BY <1>1 DEF PInv, TypeOK, Shape
<1>3. OneOwner'
  BY <1>1 DEF PInv, OneOwner, Owning, Running, Continuing, Processing
<1>4. ChainKept'
  BY <1>1 DEF PInv, ChainKept, CarriedBy
<1> QED
  BY <1>2, <1>3, <1>4 DEF PInv

\* Who has not begun carries nothing.
LEMMA CallKeeps ==
  ASSUME PInv, CronFires \/ \E r \in Request : RequestCalls(r)
  PROVE  PInv'
<1> USE MaintenanceAssumption
<1>1. PICK a \in Actor \ Consumer :
        /\ actor[a].pc = "idle" /\ actor' = Goto(a, "maintain")
        /\ UNCHANGED <<row, queue, due, faults, seen>>
  BY DEF CronFires, RequestCalls, Actor
<1>2. /\ \A b \in Actor : b # a => actor'[b] = actor[b]
      /\ actor'[a].batch = actor[a].batch /\ actor'[a].token = actor[a].token
      /\ actor'[a].pc = "maintain" /\ actor'[a].msg = actor[a].msg
  BY <1>1 DEF PInv, TypeOK, Goto
<1>3. TypeOK'
  <2>1. actor' \in [Actor -> ActorRecord]
    BY <1>1, GotoType DEF PInv, PC
  <2>2. cron' \in 0..Period
    BY DEF PInv, TypeOK, CronFires, RequestCalls
  <2> QED
    BY <1>1, <2>1, <2>2 DEF PInv, TypeOK, ActorRecord
<1>4. Shape'
  BY <1>1, <1>2 DEF PInv, Shape, Claimers, Callers
<1>5. a \notin Owning'
  BY <1>1 DEF Owning, Running, Continuing
<1>6. OneOwner'
  BY <1>1, <1>2, <1>5, OwnersKeep DEF PInv
<1>7. row.token # None => ~CarriedBy(a, row.token)
  BY <1>1 DEF PInv, Shape, CarriedBy
<1>8. ChainKept'
  BY <1>1, <1>2, <1>7, ChainKeeps DEF PInv
<1> QED
  BY <1>3, <1>4, <1>6, <1>8 DEF PInv

\* What is left of the lease goes down as the age of its owner goes up.
LEMMA TickKeeps ==
  ASSUME PInv, Tick
  PROVE  PInv'
<1> USE MaintenanceAssumption
<1>0. actor \in [Actor -> ActorRecord]
  BY DEF PInv, TypeOK, ActorRecord
<1>1. /\ row' = [row EXCEPT !.left = Less(@)] /\ UNCHANGED <<due, faults>>
      /\ queue' = [m \in Message |-> IF queue[m] = None THEN None ELSE queue[m] - 1]
      /\ actor' = [a \in Actor |-> IF actor[a].pc = "idle" THEN Idle
                     ELSE [actor[a] EXCEPT !.age = @ + 1]]
      /\ seen' = Noted("overrun", \E v \in Owning : actor[v].age + 1 >= Lease)
  BY DEF Tick
<1>2. /\ row'.token = row.token /\ row'.processing = row.processing
      /\ row'.left = Less(row.left) /\ row.left \in Nat
  BY <1>1 DEF PInv, TypeOK
<1>3. ASSUME NEW a \in Actor
      PROVE  /\ actor'[a].pc = actor[a].pc /\ actor'[a].batch = actor[a].batch
             /\ actor'[a].msg = actor[a].msg /\ actor'[a].token = actor[a].token
             /\ actor[a].pc # "idle" => actor'[a].age = actor[a].age + 1
  <2>1. CASE actor[a].pc = "idle"
    <3>1. actor[a].batch = {} /\ actor[a].msg = None /\ actor[a].token = None
      BY <2>1 DEF PInv, Shape
    <3>2. actor'[a] = Idle
      BY <1>1, <2>1
    <3> QED
      BY <2>1, <3>1, <3>2 DEF Idle
  <2>2. CASE actor[a].pc # "idle"
    <3>1. actor'[a] = [actor[a] EXCEPT !.age = @ + 1]
      BY <1>1, <2>2
    <3> QED
      BY <1>0, <2>2, <3>1 DEF ActorRecord
  <2> QED
    BY <2>1, <2>2
<1>4. TypeOK'
  <2>1. row' \in [token : Token \union {None}, processing : BOOLEAN, left : 0..Lease]
    <3>1. row \in [token : Token \union {None}, processing : BOOLEAN, left : 0..Lease]
      BY DEF PInv, TypeOK
    <3>2. Less(row.left) \in 0..Lease
      BY <3>1 DEF Less
    <3> QED
      BY <1>1, <3>1, <3>2
  <2>2. queue' \in Queues
    <3> SUFFICES ASSUME NEW m \in Message, queue[m] # None
                 PROVE  queue[m] - 1 \in 0..(Delay + Pause)
      BY <1>1 DEF Queues
    <3>1. queue[m] \in 0..(Delay + Pause) /\ queue[m] # 0
      BY DEF PInv, TypeOK, Tick
    <3> QED
      BY <3>1
  <2>3. actor' \in [Actor -> ActorRecord]
    <3> SUFFICES ASSUME NEW a \in Actor
                 PROVE  /\ actor[a].pc = "idle" => Idle \in ActorRecord
                        /\ actor[a].pc # "idle" =>
                             [actor[a] EXCEPT !.age = @ + 1] \in ActorRecord
      <4> HIDE DEF ActorRecord
      <4> QED
        BY <1>1
    <3>1. Idle \in ActorRecord
      BY DEF ActorRecord, Idle
    <3>2. ASSUME actor[a].pc # "idle"
          PROVE  [actor[a] EXCEPT !.age = @ + 1] \in ActorRecord
      <4>1. actor[a] \in ActorRecord /\ actor[a].age < Life
        BY <1>0, <3>2 DEF Tick
      <4>2. actor[a].age + 1 \in 0..Life
        BY <4>1 DEF ActorRecord
      <4> QED
        BY <4>1, <4>2 DEF ActorRecord
    <3> QED
      BY <3>1, <3>2
  <2>4. seen' \subseteq {"overrun", "seized", "lost", "raced"}
    BY <1>1 DEF PInv, TypeOK, Noted
  <2>5. cron' \in 0..Period
    BY DEF PInv, TypeOK, Tick
  <2> QED
    BY <1>1, <2>1, <2>2, <2>3, <2>4, <2>5 DEF PInv, TypeOK, ActorRecord, Queues
<1>5. Shape'
  BY <1>3 DEF PInv, Shape
<1>6. Owning' = Owning
  BY <1>3 DEF Owning, Running, Continuing, Actor
<1>7. OneOwner'
  <2> SUFFICES ASSUME {"overrun", "seized"} \intersect seen' = {}
               PROVE  /\ \A v \in Owning : /\ Processing(actor[v].msg)'
                                           /\ row'.left + actor'[v].age = Lease
                                           /\ actor'[v].age < Lease
                      /\ \A v, u \in Owning : v = u
    BY <1>6 DEF OneOwner
  <2>1. /\ {"overrun", "seized"} \intersect seen = {}
        /\ ~\E v \in Owning : actor[v].age + 1 >= Lease
    BY <1>1 DEF Noted
  <2>2. ASSUME NEW v \in Owning
        PROVE  /\ row'.token = actor'[v].msg /\ row'.processing
               /\ row'.left + actor'[v].age = Lease
               /\ actor'[v].age < Lease
    <3>1. v \in Actor /\ actor[v].pc # "idle"
      BY DEF Owning, Running, Continuing, Actor
    <3>2. actor[v].age \in Nat /\ actor'[v].age = actor[v].age + 1
      BY <1>0, <1>3, <3>1 DEF ActorRecord
    <3>3. /\ Processing(actor[v].msg) /\ row.left + actor[v].age = Lease
          /\ actor[v].age + 1 < Lease
      BY <2>1, <3>2 DEF PInv, OneOwner
    <3>4. row'.left = row.left - 1
      BY <1>2, <3>2, <3>3 DEF Less
    <3> QED
      BY <1>2, <1>3, <3>1, <3>2, <3>3, <3>4 DEF Processing
  <2> QED
    BY <2>1, <2>2 DEF PInv, OneOwner, Processing
<1>8. ChainKept'
  <2>1. \A t : \A a \in Actor : CarriedBy(a, t)' = CarriedBy(a, t)
    BY <1>2, <1>3 DEF CarriedBy
  <2>2. \A t \in Message : queue[t] # None => queue'[t] # None
    <3> SUFFICES ASSUME NEW t \in Message, queue[t] # None
                 PROVE  queue[t] - 1 # None
      BY <1>1
    <3>1. queue[t] \in Nat /\ queue[t] # 0
      BY DEF PInv, TypeOK, Tick
    <3>2. queue[t] - 1 \in Nat
      BY <3>1
    <3> QED
      BY <3>2
  <2>3. row.token # None => row.token \in Message
    BY DEF PInv, TypeOK, Message
  <2>4. seen \subseteq seen'
    BY <1>1 DEF Noted
  <2> QED
    BY <1>2, <2>1, <2>2, <2>3, <2>4 DEF PInv, ChainKept
<1> QED
  BY <1>4, <1>5, <1>7, <1>8 DEF PInv
-----------------------------------------------------------------------------
LEMMA NextKeeps == PInv /\ Next => PInv'
<1> SUFFICES ASSUME PInv, Next PROVE PInv'
  OBVIOUS
<1>1. ASSUME NEW v \in Consumer, Works(v) \/ Throw(v) PROVE PInv'
  BY <1>1, LoopKeeps, CheckKeeps, ConsumeKeeps, LookKeeps, RunSliceKeeps,
     EndChainKeeps, FailedKeeps, ThrowKeeps DEF Works
<1>2. ASSUME NEW a \in Actor, Maintains(a) \/ SendFails(a) \/ MaintainThrows(a) \/ Die(a)
      PROVE  PInv'
  BY <1>2, MaintainKeeps, SendKeeps, RestoreKeeps, MaintainThrowsKeeps, DieKeeps
  DEF Maintains
<1>3. ASSUME NEW m \in Message, Lose(m) PROVE PInv'
  BY <1>3, LoseKeeps
<1>4. ASSUME NEW r \in Request, RequestCalls(r) PROVE PInv'
  BY <1>4, CallKeeps
<1>5. CASE Delivers
  BY <1>5, DeliverKeeps DEF Delivers
<1>6. CASE WorkArrives
  BY <1>6, ArrivalKeeps
<1>7. CASE CronFires
  BY <1>7, CallKeeps
<1>8. CASE Tick
  BY <1>8, TickKeeps
<1> QED
  BY <1>1, <1>2, <1>3, <1>4, <1>5, <1>6, <1>7, <1>8 DEF Next

LEMMA StutterKeeps ==
  ASSUME PInv, UNCHANGED vars
  PROVE  PInv'
<1> USE DEF vars
<1>1. TypeOK' /\ Shape'
  BY DEF PInv, TypeOK, Shape
<1>2. OneOwner'
  BY DEF PInv, OneOwner, Owning, Running, Continuing, Processing
<1>3. ChainKept'
  BY DEF PInv, ChainKept, CarriedBy
<1> QED
  BY <1>1, <1>2, <1>3 DEF PInv

\* Two owners would be two consumers that hold the row.
LEMMA OwnerAlone ==
  ASSUME PInv
  PROVE  Exclusive
<1> SUFFICES ASSUME {"overrun", "seized"} \intersect seen = {}
             PROVE  Cardinality(Running) <= 1
  BY DEF Exclusive
<1>1. \A v, u \in Running : v = u
  BY DEF PInv, OneOwner, Owning
<1>2. CASE Running = {}
  BY <1>2, FS_EmptySet
<1>3. CASE Running # {}
  <2>1. PICK v : Running = {v}
    BY <1>1, <1>3
  <2>2. Cardinality({v}) = 1
    BY FS_Singleton
  <2> QED
    BY <2>1, <2>2
<1> QED
  BY <1>2, <1>3

LEMMA CarrierFound ==
  ASSUME PInv
  PROVE  ChainAlive
  BY DEF PInv, ChainKept, ChainAlive, Carried, CarriedBy

\* The specification of ProductMaintenance keeps its invariant, and what the
\* module says of exclusion and of the chain holds.
THEOREM MaintenanceInvariant == Spec => []PInv
<1>1. Init => PInv
  BY InitPInv
<1>2. PInv /\ [Next]_vars => PInv'
  BY NextKeeps, StutterKeeps
<1> QED
  BY <1>1, <1>2, PTL DEF Spec

THEOREM RunsExclude == Spec => []Exclusive
<1>1. PInv => Exclusive
  BY OwnerAlone
<1> QED
  BY <1>1, MaintenanceInvariant, PTL

THEOREM MaintenanceAlive == Spec => []ChainAlive
<1>1. PInv => ChainAlive
  BY CarrierFound
<1> QED
  BY <1>1, MaintenanceInvariant, PTL
-----------------------------------------------------------------------------
(* ProviderWakes, as the instance Jobs: its job is row, its consumers are  *)
(* Drainer and its pump is Cron.                                           *)
RowRecord ==
  [status : {"unborn", "queued", "running", "paused", "finished", "cancelled"},
   todo : 0..Slices, holder : Drainer \union {None}, lease : BOOLEAN,
   rest : BOOLEAN, token : Jobs!WakeToken \union {None}, processing : BOOLEAN,
   reserved : BOOLEAN]
Waking == {"idle", "wake", "send", "restore"}
Bound == {"claim", "look", "drain", "slice", "reread", "clear", "sibling"}
WakerRecord ==
  [pc : Waking \union Bound \union {"ack", "failed"}, job : Job \union {None},
   msg : Jobs!Message \union {None}, new : Jobs!WakeToken \union {None},
   ready : BOOLEAN]

JobsType ==
  /\ row \in [Job -> RowRecord]
  /\ queue \subseteq Jobs!Message
  /\ actor \in [Jobs!Actor -> WakerRecord]
  /\ faults \in 0..Faults
  /\ seen \in [Job -> SUBSET {"broken", "twice"}]

\* What an actor holds where: only consumers have messages, and a consumer is
\* at its message's job until it turns to a sibling, which it never does for a
\* message of schema version 1.
JobsShape ==
  \A a \in Jobs!Actor :
    /\ actor[a].pc = "idle" => actor[a].msg = None
    /\ actor[a].pc # "idle" => actor[a].job \in Job
    /\ actor[a].pc \in {"send", "restore"} => actor[a].new \in Jobs!WakeToken
    /\ a \notin Drainer => actor[a].msg = None /\ actor[a].pc \in Waking
    /\ a \in Drainer /\ actor[a].pc # "idle" => actor[a].msg \in Jobs!Message
    /\ actor[a].pc \in Bound => /\ actor[a].msg.token \in Jobs!WakeToken
                                /\ actor[a].msg.job = actor[a].job
    /\ a \in Drainer /\ actor[a].pc # "idle" /\ actor[a].msg.token = None =>
         actor[a].msg.job = actor[a].job

\* A job with a lease runs, and one without work is finished.
RowShape ==
  \A j \in Job : /\ row[j].holder # None => row[j].status = "running"
                 /\ row[j].todo = 0 => row[j].status = "finished"
                 /\ row[j].processing => row[j].token # None

Single(j) == "twice" \notin seen[j]
Sound(j) == seen[j] = {}
Own(w) == actor[w].msg.job = actor[w].job

\* A message of which no two deliveries overlapped is in the queue as long as a
\* consumer has it, and no other has.
OneDelivery ==
  \A w \in Drainer : actor[w].msg # None /\ Single(actor[w].msg.job) =>
    /\ actor[w].msg \in queue
    /\ \A v \in Drainer : actor[v].msg = actor[w].msg => v = w

\* A consumer that has claimed its message's token, for as long as the row has it.
Claiming(w) ==
  \/ actor[w].pc \in {"drain", "slice", "reread", "clear"}
  \/ actor[w].pc = "wake" /\ Own(w) /\ actor[w].msg.token # None
ClaimKept ==
  \A w \in Drainer : Claiming(w) /\ Single(actor[w].msg.job) =>
    LET m == actor[w].msg IN
    row[m.job].token = m.token => row[m.job].processing

\* A consumer that may acknowledge its message: the row has another token by now.
Passing(w) ==
  \/ actor[w].pc \in {"look", "sibling", "ack", "send", "restore"}
  \/ actor[w].pc \in {"wake", "failed"} /\ ~Own(w)
Consumed ==
  \A w \in Drainer :
    Passing(w) /\ actor[w].msg.token # None /\ Sound(actor[w].msg.job) =>
      row[actor[w].msg.job].token # actor[w].msg.token

\* A token in processing has its consumer, which will use it or give it back.
Holding(w, j) ==
  /\ actor[w].msg = [job |-> j, token |-> row[j].token]
  /\ \/ actor[w].pc \in {"drain", "slice", "reread", "clear"}
     \/ actor[w].pc \in {"wake", "failed"} /\ actor[w].job = j
Held ==
  \A j \in Job : row[j].processing /\ Sound(j) => \E w \in Drainer : Holding(w, j)

\* A token has its message in the queue, or an actor that has yet to send it.
Bringing(a, j) ==
  /\ actor[a].job = j /\ actor[a].new = row[j].token
  /\ actor[a].pc \in {"send", "restore"}
Awaited ==
  \A j \in Job : Sound(j) /\ row[j].token # None =>
    \/ [job |-> j, token |-> row[j].token] \in queue
    \/ ~row[j].processing /\ \E a \in Jobs!Actor : Bringing(a, j)

\* A live job without a token is about to be woken by the owner, or a message of
\* schema version 1 asks for its first wake.
Leaving(w, m) == actor[w].msg = m /\ actor[w].pc \in {"send", "restore", "ack"}
Asked ==
  \A j \in Job : Jobs!Live(j) /\ Sound(j) /\ row[j].token = None =>
    LET m == [job |-> j, token |-> None] IN
    \/ actor[Owner].pc = "wake" /\ actor[Owner].job = j
    \/ m \in queue /\ \A w \in Drainer : ~Leaving(w, m)

WInv == /\ JobsType /\ JobsShape /\ RowShape
        /\ OneDelivery /\ ClaimKept /\ Consumed /\ Held /\ Awaited /\ Asked
-----------------------------------------------------------------------------
LEMMA NoneOutside ==
  /\ None \notin Jobs!Message /\ None \notin Jobs!WakeToken /\ None \notin Drainer
  /\ Owner \notin Drainer /\ Cron \notin Drainer /\ Owner # Cron
  /\ Jobs!Actor = Drainer \union {Owner, Cron}
  /\ Slices \in Nat /\ Slices > 0 /\ Faults \in Nat
  BY ChainScales DEF Jobs!WakeScale, Jobs!Actor

LEMMA JobsInit == Jobs!Init => WInv
<1> SUFFICES ASSUME Jobs!Init PROVE WInv
  OBVIOUS
<1> USE NoneOutside
<1> PICK old \in SUBSET Job :
      /\ row = [j \in Job |-> IF j \in old THEN [Jobs!Unborn EXCEPT !.status = "queued"]
                              ELSE Jobs!Unborn]
      /\ queue = {[job |-> j, token |-> None] : j \in old}
  BY DEF Jobs!Init
<1>1. actor = [a \in Jobs!Actor |-> Jobs!Idle] /\ faults = 0 /\ seen = [j \in Job |-> {}]
  BY DEF Jobs!Init
<1>2. JobsType
  <2>1. row \in [Job -> RowRecord]
    <3>1. Jobs!Unborn \in RowRecord
      BY DEF Jobs!Unborn, RowRecord
    <3>2. [Jobs!Unborn EXCEPT !.status = "queued"] \in RowRecord
      BY <3>1 DEF RowRecord
    <3> HIDE DEF RowRecord
    <3> QED
      BY <3>1, <3>2
  <2>2. queue \subseteq Jobs!Message
    BY DEF Jobs!Message
  <2>3. Jobs!Idle \in WakerRecord
    BY DEF Jobs!Idle, WakerRecord, Waking
  <2>4. actor \in [Jobs!Actor -> WakerRecord]
    BY <1>1, <2>3
  <2> QED
    BY <1>1, <2>1, <2>2, <2>4 DEF JobsType
<1>3. \A a \in Jobs!Actor : actor[a].pc = "idle" /\ actor[a].msg = None
  BY <1>1 DEF Jobs!Idle
<1>4. \A j \in Job : /\ row[j].token = None /\ ~row[j].processing /\ row[j].holder = None
                     /\ row[j].todo = Slices /\ row[j].status = IF j \in old THEN "queued" ELSE "unborn"
  BY DEF Jobs!Unborn
<1>5. JobsShape /\ RowShape
  BY <1>3, <1>4 DEF JobsShape, RowShape, Waking, Bound
<1>6. OneDelivery /\ ClaimKept /\ Consumed /\ Held /\ Awaited
  BY <1>3, <1>4 DEF OneDelivery, ClaimKept, Consumed, Held, Awaited, Claiming, Passing
<1>7. Asked
  BY <1>3, <1>4 DEF Asked, Leaving, Jobs!Live
<1> QED
  BY <1>2, <1>5, <1>6, <1>7 DEF WInv
-----------------------------------------------------------------------------
\* What the steps of a waker make of an actor's record and of the history.
JobsActors == [Jobs!Actor -> WakerRecord]
JobsSeen == [Job -> SUBSET {"broken", "twice"}]

LEMMA WakerType ==
  ASSUME JobsType, NEW a \in Jobs!Actor,
         NEW pc \in Waking \union Bound \union {"ack", "failed"},
         NEW j \in Job, NEW new \in Jobs!WakeToken \union {None}
  PROVE  /\ [actor EXCEPT ![a].pc = pc, ![a].new = new] \in JobsActors
         /\ [actor EXCEPT ![a].new = new, ![a].pc = pc] \in JobsActors
         /\ [actor EXCEPT ![a].pc = pc, ![a].job = j] \in JobsActors
         /\ [actor EXCEPT ![a].pc = pc] \in JobsActors
         /\ [actor EXCEPT ![a] = Jobs!Idle] \in JobsActors
         /\ [actor EXCEPT ![a] = [Jobs!Idle EXCEPT !.pc = pc, !.job = j]] \in JobsActors
<1>1. actor \in [Jobs!Actor -> WakerRecord] /\ actor[a] \in WakerRecord
  BY DEF JobsType
<1>2. /\ [actor[a] EXCEPT !.pc = pc, !.new = new] \in WakerRecord
      /\ [actor[a] EXCEPT !.new = new, !.pc = pc] \in WakerRecord
      /\ [actor[a] EXCEPT !.pc = pc, !.job = j] \in WakerRecord
      /\ [actor[a] EXCEPT !.pc = pc] \in WakerRecord
  BY <1>1 DEF WakerRecord
<1>3. /\ Jobs!Idle \in WakerRecord
      /\ [Jobs!Idle EXCEPT !.pc = pc, !.job = j] \in WakerRecord
  BY DEF Jobs!Idle, WakerRecord, Waking
<1> HIDE DEF WakerRecord
<1> QED
  BY <1>1, <1>2, <1>3 DEF JobsActors

LEMMA JobsReturnedType ==
  ASSUME JobsType, NEW a \in Jobs!Actor
  PROVE  Jobs!Returned(a) \in JobsActors /\ Jobs!Thrown(a) \in JobsActors
<1>1. /\ [actor EXCEPT ![a].pc = "ack", ![a].new = None] \in JobsActors
      /\ [actor EXCEPT ![a].pc = "failed", ![a].new = None] \in JobsActors
      /\ [actor EXCEPT ![a] = Jobs!Idle] \in JobsActors
  <2>1. actor \in [Jobs!Actor -> WakerRecord] /\ actor[a] \in WakerRecord
    BY DEF JobsType
  <2>2. /\ [actor[a] EXCEPT !.pc = "ack", !.new = None] \in WakerRecord
        /\ [actor[a] EXCEPT !.pc = "failed", !.new = None] \in WakerRecord
        /\ Jobs!Idle \in WakerRecord
    BY <2>1 DEF WakerRecord, Jobs!Idle, Waking
  <2> HIDE DEF WakerRecord
  <2> QED
    BY <2>1, <2>2 DEF JobsActors
<1> QED
  BY <1>1 DEF Jobs!Returned, Jobs!Thrown

LEMMA NotedType ==
  ASSUME JobsType, NEW j \in Job, NEW what \in {"broken", "twice"}, NEW if \in BOOLEAN
  PROVE  /\ Jobs!Noted(j, what, if) \in JobsSeen
         /\ \A k \in Job : Jobs!Noted(j, what, if)[k] =
                             IF k = j /\ if THEN seen[k] \union {what} ELSE seen[k]
  BY DEF JobsType, JobsSeen, Jobs!Noted
-----------------------------------------------------------------------------
\* A step of one waker that leaves queue, tokens and claims alone, keeps what its
\* message stands for, and lets no job become live.
LEMMA WakerKeeps ==
  ASSUME WInv, JobsType', JobsShape', RowShape',
         NEW a \in Jobs!Actor, \A b \in Jobs!Actor : b # a => actor'[b] = actor[b],
         queue' = queue,
         \A j \in Job : /\ row'[j].token = row[j].token
                        /\ row'[j].processing = row[j].processing
                        /\ row'[j].status \in {"queued", "running"} => Jobs!Live(j)
                        /\ seen[j] \subseteq seen'[j],
         actor'[a].msg = actor[a].msg,
         a \in Drainer => /\ Claiming(a)' => Claiming(a)
                          /\ Passing(a)' => Passing(a)
                          /\ \A j \in Job : Holding(a, j) => Holding(a, j)'
                          /\ \A m \in Jobs!Message :
                               m.token = None /\ Leaving(a, m)' => Leaving(a, m),
         \A j \in Job : Bringing(a, j) => Bringing(a, j)',
         a = Owner => actor' = actor
  PROVE  WInv'
<1> USE NoneOutside
<1>1. \A w \in Drainer : actor'[w].msg = actor[w].msg
  OBVIOUS
<1>2. \A j \in Job : (Single(j)' => Single(j)) /\ (Sound(j)' => Sound(j))
  BY DEF Single, Sound
<1>3. \A w \in Drainer : actor[w].msg # None => actor[w].msg \in Jobs!Message /\ actor[w].msg.job \in Job
  BY DEF WInv, JobsType, WakerRecord, Jobs!Message
<1>4. OneDelivery'
  BY <1>1, <1>2, <1>3 DEF WInv, OneDelivery
<1>5. \A w \in Drainer : /\ Claiming(w)' => Claiming(w)
                         /\ Passing(w)' => Passing(w)
                         /\ \A j \in Job : Holding(w, j) => Holding(w, j)'
                         /\ \A m \in Jobs!Message :
                              m.token = None /\ Leaving(w, m)' => Leaving(w, m)
  <2> SUFFICES ASSUME NEW w \in Drainer, w # a
               PROVE  /\ Claiming(w)' => Claiming(w)
                      /\ Passing(w)' => Passing(w)
                      /\ \A j \in Job : Holding(w, j) => Holding(w, j)'
                      /\ \A m \in Jobs!Message : Leaving(w, m)' => Leaving(w, m)
    OBVIOUS
  <2> QED
    BY DEF Claiming, Passing, Holding, Leaving, Own
<1>6. \A w \in Drainer : Claiming(w) \/ Passing(w) => actor[w].msg # None
  BY DEF WInv, JobsShape, Claiming, Passing
<1>7. ClaimKept'
  BY <1>1, <1>2, <1>3, <1>5, <1>6 DEF WInv, ClaimKept
<1>8. Consumed'
  BY <1>1, <1>2, <1>3, <1>5, <1>6 DEF WInv, Consumed
<1>9. Held'
  BY <1>2, <1>5 DEF WInv, Held
<1>10. Awaited'
  <2>1. \A b \in Jobs!Actor, j \in Job : Bringing(b, j) => Bringing(b, j)'
    BY DEF Bringing
  <2> QED
    BY <1>2, <2>1 DEF WInv, Awaited
<1>11. Asked'
  <2> SUFFICES ASSUME NEW j \in Job, Jobs!Live(j)', Sound(j)', row'[j].token = None,
                      ~(actor'[Owner].pc = "wake" /\ actor'[Owner].job = j)
               PROVE  /\ [job |-> j, token |-> None] \in queue
                      /\ \A w \in Drainer : ~Leaving(w, [job |-> j, token |-> None])'
    BY DEF Asked
  <2>1. Jobs!Live(j) /\ Sound(j) /\ row[j].token = None
    BY <1>2 DEF Jobs!Live
  <2>2. actor'[Owner] = actor[Owner]
    OBVIOUS
  <2>3. [job |-> j, token |-> None] \in Jobs!Message
    BY DEF Jobs!Message
  <2> QED
    BY <1>5, <2>1, <2>2, <2>3 DEF WInv, Asked
<1> QED
  BY <1>4, <1>7, <1>8, <1>9, <1>10, <1>11 DEF WInv
-----------------------------------------------------------------------------
(* The slice of a job, and time: the tokens stay.                          *)
LEMMA DrainKeeps ==
  ASSUME WInv, NEW w \in Drainer, Jobs!Drain(w)
  PROVE  WInv'
<1> USE NoneOutside
<1> DEFINE j == actor[w].job
<1>1. /\ actor[w].pc = "drain" /\ actor[w].msg # None /\ j \in Job /\ w \in Jobs!Actor
      /\ actor[w].msg.token \in Jobs!WakeToken
  BY DEF WInv, JobsShape, Jobs!Drain, Jobs!At, Bound
<1>2. PICK pc \in {"slice", "reread"} : actor' = [actor EXCEPT ![w].pc = pc]
  BY DEF Jobs!Drain, Jobs!Goto
<1>3. UNCHANGED <<queue, faults, seen>>
  BY DEF Jobs!Drain
<1>4. \/ /\ Jobs!Live(j)
         /\ row' = [row EXCEPT ![j].status = "running", ![j].holder = w, ![j].lease = TRUE]
      \/ row' = row
  BY DEF Jobs!Drain, Jobs!Drainable
<1>5. /\ actor'[w].pc = pc /\ actor'[w].msg = actor[w].msg
      /\ actor'[w].job = j /\ actor'[w].new = actor[w].new
      /\ \A b \in Jobs!Actor : b # w => actor'[b] = actor[b]
  BY <1>1, <1>2 DEF WInv, JobsType, WakerRecord
<1>6. \A k \in Job : /\ row'[k].token = row[k].token /\ row'[k].todo = row[k].todo
                     /\ row'[k].processing = row[k].processing
                     /\ row'[k].status \in {"queued", "running"} => Jobs!Live(k)
  BY <1>4 DEF WInv, JobsType, RowRecord, Jobs!Live
<1>7. JobsType'
  <2>1. row' \in [Job -> RowRecord]
    BY <1>1, <1>4 DEF WInv, JobsType, RowRecord
  <2>2. actor' \in JobsActors
    BY <1>1, <1>2, WakerType DEF WInv, Bound
  <2> QED
    BY <1>3, <2>1, <2>2 DEF WInv, JobsType, JobsActors
<1>8. JobsShape'
  BY <1>1, <1>5 DEF WInv, JobsShape, Waking, Bound
<1>9. RowShape'
  BY <1>4, <1>6 DEF WInv, JobsType, RowRecord, RowShape, Jobs!Live
<1>10. /\ Claiming(w) /\ ~Passing(w)'
       /\ \A k \in Job : Holding(w, k) => Holding(w, k)'
       /\ \A m \in Jobs!Message : ~Leaving(w, m)'
       /\ \A k \in Job : ~Bringing(w, k)
  BY <1>1, <1>5, <1>6 DEF Claiming, Passing, Holding, Leaving, Bringing
<1> QED
  BY <1>1, <1>3, <1>5, <1>6, <1>7, <1>8, <1>9, <1>10, WakerKeeps

LEMMA SliceKeeps ==
  ASSUME WInv, NEW w \in Drainer, Jobs!Slice(w)
  PROVE  WInv'
<1> USE NoneOutside
<1> DEFINE j == actor[w].job
           freed == [row[j] EXCEPT !.holder = None, !.lease = FALSE]
<1>1. /\ actor[w].pc = "slice" /\ actor[w].msg # None /\ j \in Job /\ w \in Jobs!Actor
      /\ actor[w].msg.token \in Jobs!WakeToken
  BY DEF WInv, JobsShape, Jobs!Slice, Jobs!At, Bound
<1>2. actor' = [actor EXCEPT ![w].pc = "reread"] /\ UNCHANGED <<queue, seen>>
  BY DEF Jobs!Slice, Jobs!Goto
<1>3. faults' \in 0..Faults
  BY DEF WInv, JobsType, Jobs!Slice, Jobs!Fault
<1>4. /\ actor'[w].pc = "reread" /\ actor'[w].msg = actor[w].msg
      /\ actor'[w].job = j /\ actor'[w].new = actor[w].new
      /\ \A b \in Jobs!Actor : b # w => actor'[b] = actor[b]
  BY <1>1, <1>2 DEF WInv, JobsType, WakerRecord
<1>5. PICK r : /\ row' = [row EXCEPT ![j] = r] /\ r \in RowRecord
               /\ r.token = row[j].token /\ r.processing = row[j].processing
               /\ r.status \in {"queued", "running"} => Jobs!Live(j)
               /\ r.holder # None => r.status = "running"
               /\ r.todo = 0 => r.status = "finished"
  <2>1. /\ row \in [Job -> RowRecord] /\ row[j] \in RowRecord
        /\ row[j].holder # None => row[j].status = "running"
        /\ row[j].todo = 0 => row[j].status = "finished"
    BY <1>1 DEF WInv, JobsType, RowShape
  <2>2. CASE row[j].holder = w /\ row[j].lease
    <3>1. row[j].status = "running" /\ Jobs!Live(j) /\ row[j].todo \in 1..Slices
      BY <2>1, <2>2 DEF Jobs!Live, RowRecord
    <3>2. \/ row' = [row EXCEPT ![j] = [freed EXCEPT !.todo = @ - 1,
                       !.status = IF freed.todo = 1 THEN "finished" ELSE "queued"]]
          \/ row' = [row EXCEPT ![j] = [freed EXCEPT !.status = "paused"]]
          \/ row' = [row EXCEPT ![j] = [freed EXCEPT !.status = "queued", !.rest = TRUE]]
      BY <2>2 DEF Jobs!Slice
    <3>3. /\ freed \in RowRecord /\ freed.token = row[j].token /\ freed.todo = row[j].todo
          /\ freed.processing = row[j].processing /\ freed.holder = None
      BY <2>1 DEF RowRecord
    <3> HIDE DEF freed
    <3>4. CASE row' = [row EXCEPT ![j] = [freed EXCEPT !.todo = @ - 1,
                         !.status = IF freed.todo = 1 THEN "finished" ELSE "queued"]]
      <4> DEFINE status == IF freed.todo = 1 THEN "finished" ELSE "queued"
                 r == [freed EXCEPT !.todo = @ - 1, !.status = status]
      <4>1. /\ status \in {"finished", "queued"}
            /\ freed.todo - 1 \in 0..Slices /\ (freed.todo - 1 = 0 => status = "finished")
        BY <3>1, <3>3
      <4> HIDE DEF status
      <4>2. /\ r \in RowRecord /\ r.token = freed.token /\ r.holder = None
            /\ r.processing = freed.processing /\ r.todo = freed.todo - 1 /\ r.status = status
        BY <3>3, <4>1 DEF RowRecord
      <4>3. row' = [row EXCEPT ![j] = r]
        BY <3>4 DEF status
      <4> QED
        BY <3>1, <3>3, <4>1, <4>2, <4>3
    <3>5. CASE row' = [row EXCEPT ![j] = [freed EXCEPT !.status = "paused"]]
      <4> DEFINE r == [freed EXCEPT !.status = "paused"]
      <4>1. /\ r \in RowRecord /\ r.token = freed.token /\ r.holder = None
            /\ r.processing = freed.processing /\ r.todo = freed.todo
        BY <3>3 DEF RowRecord
      <4>2. row' = [row EXCEPT ![j] = r]
        BY <3>5
      <4> HIDE DEF r
      <4> QED
        BY <3>1, <3>3, <2>1, <4>1, <4>2
    <3>6. CASE row' = [row EXCEPT ![j] = [freed EXCEPT !.status = "queued", !.rest = TRUE]]
      <4> DEFINE r == [freed EXCEPT !.status = "queued", !.rest = TRUE]
      <4>1. /\ r \in RowRecord /\ r.token = freed.token /\ r.holder = None
            /\ r.processing = freed.processing /\ r.todo = freed.todo
        BY <3>3 DEF RowRecord
      <4>2. row' = [row EXCEPT ![j] = r]
        BY <3>6
      <4> HIDE DEF r
      <4> QED
        BY <3>1, <3>3, <2>1, <4>1, <4>2
    <3> QED
      BY <3>2, <3>4, <3>5, <3>6
  <2>3. CASE ~(row[j].holder = w /\ row[j].lease)
    <3>1. row' = [row EXCEPT ![j] = IF row[j].holder = w THEN freed ELSE row[j]]
      BY <2>3 DEF Jobs!Slice
    <3>2. /\ freed \in RowRecord /\ freed.token = row[j].token /\ freed.holder = None
          /\ freed.processing = row[j].processing /\ freed.status = row[j].status
          /\ freed.todo = row[j].todo
      BY <2>1 DEF RowRecord
    <3>3. row[j].status \in {"queued", "running"} => Jobs!Live(j)
      BY DEF Jobs!Live
    <3> QED
      BY <2>1, <3>1, <3>2, <3>3
  <2> QED
    BY <2>2, <2>3
<1>6. \A k \in Job : /\ row'[k].token = row[k].token
                     /\ row'[k].processing = row[k].processing
                     /\ row'[k].status \in {"queued", "running"} => Jobs!Live(k)
  BY <1>5 DEF WInv, JobsType, Jobs!Live
<1>7. JobsType'
  <2>1. row' \in [Job -> RowRecord]
    BY <1>5 DEF WInv, JobsType
  <2>2. actor' \in JobsActors
    BY <1>1, <1>2, WakerType DEF WInv, Bound
  <2> QED
    BY <1>2, <1>3, <2>1, <2>2 DEF WInv, JobsType, JobsActors
<1>8. JobsShape'
  BY <1>1, <1>4 DEF WInv, JobsShape, Waking, Bound
<1>9. RowShape'
  BY <1>1, <1>5 DEF WInv, JobsType, RowShape
<1>10. /\ Claiming(w) /\ ~Passing(w)'
       /\ \A k \in Job : Holding(w, k) => Holding(w, k)'
       /\ \A m \in Jobs!Message : ~Leaving(w, m)'
       /\ \A k \in Job : ~Bringing(w, k)
  BY <1>1, <1>4, <1>6 DEF Claiming, Passing, Holding, Leaving, Bringing
<1> QED
  BY <1>1, <1>2, <1>4, <1>6, <1>7, <1>8, <1>9, <1>10, WakerKeeps

\* To read the row again, to look for a sibling, to fail.
LEMMA TurnKeeps ==
  ASSUME WInv, NEW w \in Drainer,
         Jobs!Reread(w) \/ Jobs!Sibling(w) \/ Jobs!Throw(w)
  PROVE  WInv'
<1> USE NoneOutside
<1> DEFINE old == actor[w].pc
<1>1. /\ old \in Bound \union {"wake"} /\ actor[w].msg # None
      /\ actor[w].msg \in Jobs!Message /\ actor[w].job \in Job /\ w \in Jobs!Actor
      /\ old \in Bound => actor[w].msg.token \in Jobs!WakeToken /\ Own(w)
  BY DEF WInv, JobsShape, Jobs!Reread, Jobs!Sibling, Jobs!Throw, Jobs!At, Bound, Own
<1>2. UNCHANGED <<row, queue, seen>> /\ faults' \in 0..Faults
  BY DEF WInv, JobsType, Jobs!Reread, Jobs!Sibling, Jobs!Throw, Jobs!Fault
<1>3. PICK pc \in {"wake", "clear", "ack", "failed"}, k \in Job :
        /\ actor' = [actor EXCEPT ![w].pc = pc, ![w].job = k]
        /\ pc = "wake" => \/ old = "reread" /\ k = actor[w].job
                          \/ old = "sibling" /\ k # actor[w].job
        /\ pc # "wake" => k = actor[w].job
        /\ pc = "clear" => old = "reread"
        /\ pc = "ack" => old = "sibling"
  <2>1. CASE Jobs!Reread(w)
    <3>1. actor' = [actor EXCEPT ![w].pc = "wake"] \/ actor' = [actor EXCEPT ![w].pc = "clear"]
      BY <2>1 DEF Jobs!Reread, Jobs!Goto
    <3>2. old = "reread"
      BY <2>1 DEF Jobs!Reread, Jobs!At
    <3>3. \A pc : [actor EXCEPT ![w].pc = pc] = [actor EXCEPT ![w].pc = pc, ![w].job = actor[w].job]
      BY <1>1 DEF WInv, JobsType, WakerRecord
    <3> QED
      BY <1>1, <3>1, <3>2, <3>3
  <2>2. CASE Jobs!Sibling(w)
    <3>1. old = "sibling"
      BY <2>2 DEF Jobs!Sibling, Jobs!At
    <3>2. \/ actor' = [actor EXCEPT ![w].pc = "ack"]
          \/ \E k \in Job \ {actor[w].job} : actor' = [actor EXCEPT ![w].pc = "wake", ![w].job = k]
      BY <2>2 DEF Jobs!Sibling, Jobs!Goto
    <3>3. [actor EXCEPT ![w].pc = "ack"] = [actor EXCEPT ![w].pc = "ack", ![w].job = actor[w].job]
      BY <1>1 DEF WInv, JobsType, WakerRecord
    <3> QED
      BY <1>1, <3>1, <3>2, <3>3
  <2>3. CASE Jobs!Throw(w)
    <3>1. actor' = [actor EXCEPT ![w].pc = "failed"]
      BY <2>3 DEF Jobs!Throw, Jobs!Goto
    <3>2. [actor EXCEPT ![w].pc = "failed"] = [actor EXCEPT ![w].pc = "failed", ![w].job = actor[w].job]
      BY <1>1 DEF WInv, JobsType, WakerRecord
    <3> QED
      BY <1>1, <3>1, <3>2
  <2> QED
    BY <2>1, <2>2, <2>3
<1>4. /\ actor'[w].pc = pc /\ actor'[w].msg = actor[w].msg
      /\ actor'[w].job = k /\ actor'[w].new = actor[w].new
      /\ \A b \in Jobs!Actor : b # w => actor'[b] = actor[b]
  BY <1>1, <1>3 DEF WInv, JobsType, WakerRecord
<1>5. JobsType'
  <2>1. actor' \in JobsActors
    BY <1>1, <1>3, WakerType DEF WInv, Bound, Waking
  <2> QED
    BY <1>2, <2>1 DEF WInv, JobsType, JobsActors
<1>6. JobsShape'
  <2>1. /\ w \in Drainer /\ actor'[w].pc \notin {"idle", "send", "restore"}
        /\ actor'[w].job \in Job /\ actor'[w].msg \in Jobs!Message
        /\ actor'[w].pc \in Bound => /\ actor'[w].msg.token \in Jobs!WakeToken
                                    /\ actor'[w].msg.job = actor'[w].job
    BY <1>1, <1>3, <1>4 DEF Bound, Own
  <2>2. actor'[w].msg.token = None => actor'[w].msg.job = actor'[w].job
    BY <1>1, <1>3, <1>4 DEF WInv, JobsShape, Bound
  <2> QED
    BY <1>4, <2>1, <2>2 DEF WInv, JobsShape
<1>7. RowShape'
  BY <1>2 DEF WInv, RowShape
<1>8. Claiming(w)' => Claiming(w)
  BY <1>1, <1>3, <1>4 DEF Claiming, Own
<1>9. Passing(w)' => Passing(w)
  BY <1>1, <1>3, <1>4 DEF Passing, Own, Bound
<1>10. \A i \in Job : Holding(w, i) => Holding(w, i)'
  BY <1>1, <1>2, <1>3, <1>4 DEF Holding, Own, Bound
<1>11. /\ \A m \in Jobs!Message : m.token = None /\ Leaving(w, m)' => Leaving(w, m)
       /\ \A i \in Job : ~Bringing(w, i)
  BY <1>1, <1>3, <1>4 DEF Leaving, Bringing, Bound
<1> QED
  BY <1>1, <1>2, <1>4, <1>5, <1>6, <1>7, <1>8, <1>9, <1>10, <1>11, WakerKeeps
  DEF Jobs!Live

LEMMA LapseKeeps ==
  ASSUME WInv, Jobs!Lapses
  PROVE  WInv'
<1> USE NoneOutside
<1> PICK j \in Job : Jobs!LeaseEnds(j) \/ Jobs!ReservationEnds(j) \/ Jobs!RestEnds(j)
  BY DEF Jobs!Lapses
<1>1. UNCHANGED <<queue, actor, seen>> /\ faults' \in 0..Faults
  BY DEF WInv, JobsType, Jobs!LeaseEnds, Jobs!ReservationEnds, Jobs!RestEnds, Jobs!Fault
<1>2. \/ row' = [row EXCEPT ![j].lease = FALSE]
      \/ row' = [row EXCEPT ![j].reserved = FALSE]
      \/ row' = [row EXCEPT ![j].rest = FALSE]
  BY DEF Jobs!LeaseEnds, Jobs!ReservationEnds, Jobs!RestEnds
<1>3. row' \in [Job -> RowRecord]
  <2>1. row \in [Job -> RowRecord] /\ row[j] \in RowRecord
    BY DEF WInv, JobsType
  <2>2. /\ [row[j] EXCEPT !.lease = FALSE] \in RowRecord
        /\ [row[j] EXCEPT !.reserved = FALSE] \in RowRecord
        /\ [row[j] EXCEPT !.rest = FALSE] \in RowRecord
    BY <2>1 DEF RowRecord
  <2> HIDE DEF RowRecord
  <2> QED
    BY <1>2, <2>1, <2>2
<1>4. \A k \in Job : /\ row'[k].token = row[k].token /\ row'[k].todo = row[k].todo
                     /\ row'[k].processing = row[k].processing
                     /\ row'[k].status = row[k].status /\ row'[k].holder = row[k].holder
  BY <1>2 DEF WInv, JobsType, RowRecord
<1>5. JobsType' /\ JobsShape'
  BY <1>1, <1>3 DEF WInv, JobsType, JobsShape
<1>6. RowShape'
  BY <1>4 DEF WInv, RowShape
<1>7. /\ Claiming(Cron)' = Claiming(Cron) /\ Passing(Cron)' = Passing(Cron)
      /\ \A k \in Job : Holding(Cron, k) => Holding(Cron, k)'
      /\ \A m \in Jobs!Message : Leaving(Cron, m)' = Leaving(Cron, m)
      /\ \A k \in Job : Bringing(Cron, k) => Bringing(Cron, k)'
  BY <1>1, <1>4 DEF Claiming, Passing, Holding, Leaving, Bringing, Own
<1> QED
  BY <1>1, <1>4, <1>5, <1>6, <1>7, WakerKeeps DEF Jobs!Live
-----------------------------------------------------------------------------
(* wakeProviderJob                                                         *)
LEMMA ReturnedIs ==
  ASSUME JobsType, NEW a \in Jobs!Actor
  PROVE  /\ \A b \in Jobs!Actor : b # a => /\ Jobs!Returned(a)[b] = actor[b]
                                           /\ Jobs!Thrown(a)[b] = actor[b]
         /\ a \in Drainer =>
              /\ Jobs!Returned(a)[a].pc = "ack" /\ Jobs!Thrown(a)[a].pc = "failed"
              /\ Jobs!Returned(a)[a].msg = actor[a].msg
              /\ Jobs!Returned(a)[a].job = actor[a].job
              /\ Jobs!Thrown(a)[a].msg = actor[a].msg
              /\ Jobs!Thrown(a)[a].job = actor[a].job
         /\ a \notin Drainer =>
              /\ Jobs!Returned(a)[a].pc = "idle" /\ Jobs!Returned(a)[a].msg = None
              /\ Jobs!Thrown(a)[a].pc = "idle" /\ Jobs!Thrown(a)[a].msg = None
  BY DEF JobsType, WakerRecord, Jobs!Returned, Jobs!Thrown, Jobs!Idle

LEMMA ReturnedShape ==
  ASSUME JobsType, JobsShape, NEW a \in Jobs!Actor, actor[a].pc # "idle",
         actor' = Jobs!Returned(a) \/ actor' = Jobs!Thrown(a)
  PROVE  JobsShape'
<1> USE NoneOutside
<1>1. \A b \in Jobs!Actor : b # a => actor'[b] = actor[b]
  BY ReturnedIs
<1>2. a \notin Drainer => actor'[a].pc = "idle" /\ actor'[a].msg = None
  BY ReturnedIs
<1>3. a \in Drainer => /\ actor'[a].pc \in {"ack", "failed"}
                       /\ actor'[a].msg = actor[a].msg /\ actor'[a].job = actor[a].job
  BY ReturnedIs
<1> QED
  BY <1>1, <1>2, <1>3 DEF JobsShape, Waking, Bound

\* A token that nothing mentions.
LEMMA UnusedToken ==
  ASSUME WInv, NEW t, t \notin Jobs!Used
  PROVE  /\ \A j \in Job : row[j].token # t
         /\ \A w \in Jobs!Actor : actor[w].msg # None => actor[w].msg.token # t
  BY DEF Jobs!Used

LEMMA ReserveKeeps ==
  ASSUME WInv, NEW a \in Jobs!Actor, Jobs!Reserve(a)
  PROVE  WInv'
<1> USE NoneOutside
<1>0. actor[a].pc = "wake" /\ UNCHANGED <<queue, faults>> /\ actor[a].job \in Job
  BY DEF WInv, JobsShape, Jobs!Reserve, Jobs!At
<1> PICK j \in Job : j = actor[a].job
  BY <1>0
<1>1. actor[a].pc = "wake" /\ UNCHANGED <<queue, faults>>
  BY <1>0
<1>2. CASE Jobs!Live(j) /\ Jobs!Reservable(a, j)
  <2>1. PICK t \in Jobs!WakeToken \ Jobs!Used :
          /\ row' = [row EXCEPT ![j] = Jobs!Wake(row[j], t)]
          /\ actor' = [actor EXCEPT ![a].pc = "send", ![a].new = t]
          /\ seen' = [seen EXCEPT ![j] = seen[j] \ {"broken"}]
    BY <1>2 DEF Jobs!Reserve
  <2>2. /\ \A i \in Job : row[i].token # t
        /\ \A w \in Jobs!Actor : actor[w].msg # None => actor[w].msg.token # t
    BY <2>1, UnusedToken
  <2>3. /\ actor'[a].pc = "send" /\ actor'[a].msg = actor[a].msg
        /\ actor'[a].job = j /\ actor'[a].new = t
        /\ \A b \in Jobs!Actor : b # a => actor'[b] = actor[b]
    BY <2>1 DEF WInv, JobsType, WakerRecord
  <2>4. /\ row' \in [Job -> RowRecord]
        /\ row'[j].token = t /\ ~row'[j].processing
        /\ row'[j].status = row[j].status /\ row'[j].holder = row[j].holder
        /\ row'[j].todo = row[j].todo
        /\ \A i \in Job : i # j => row'[i] = row[i]
    <3>1. row \in [Job -> RowRecord] /\ row[j] \in RowRecord
      BY <1>1 DEF WInv, JobsType
    <3>2. t # None /\ Jobs!Wake(row[j], t) \in RowRecord
      BY <2>1, <3>1 DEF RowRecord, Jobs!Wake
    <3>3. /\ Jobs!Wake(row[j], t).token = t /\ ~Jobs!Wake(row[j], t).processing
          /\ Jobs!Wake(row[j], t).status = row[j].status
          /\ Jobs!Wake(row[j], t).holder = row[j].holder
          /\ Jobs!Wake(row[j], t).todo = row[j].todo
      BY <3>1 DEF RowRecord, Jobs!Wake
    <3> HIDE DEF RowRecord
    <3> QED
      BY <1>1, <2>1, <3>1, <3>2, <3>3
  <2>5. /\ seen' \in JobsSeen /\ ("twice" \in seen'[j] <=> "twice" \in seen[j])
        /\ \A i \in Job : i # j => seen'[i] = seen[i]
    BY <1>1, <2>1 DEF WInv, JobsType, JobsSeen
  <2>6. JobsType'
    <3>1. actor' \in JobsActors
      BY <1>1, <2>1, WakerType DEF WInv, Waking
    <3> QED
      BY <1>1, <2>4, <2>5, <3>1 DEF WInv, JobsType, JobsActors, JobsSeen
  <2>7. JobsShape'
    <3>1. actor'[a].new \in Jobs!WakeToken /\ actor'[a].job \in Job
      BY <2>1, <2>3
    <3>2. a \notin Drainer => actor'[a].msg = None
      BY <2>3 DEF WInv, JobsShape
    <3>3. a \in Drainer => /\ actor'[a].msg \in Jobs!Message
                           /\ actor'[a].msg.token = None => actor'[a].msg.job = actor'[a].job
      BY <1>1, <2>3 DEF WInv, JobsShape
    <3> QED
      BY <2>3, <3>1, <3>2, <3>3 DEF WInv, JobsShape, Waking, Bound
  <2>8. RowShape'
    BY <2>1, <2>4 DEF WInv, RowShape
  <2>9. \A w \in Drainer : /\ actor'[w].msg = actor[w].msg
                           /\ actor[w].msg # None => actor[w].msg.job \in Job
    BY <2>3 DEF WInv, JobsType, WakerRecord, Jobs!Message
  <2>10. OneDelivery'
    BY <1>1, <2>5, <2>9 DEF WInv, OneDelivery, Single
  <2>11. ClaimKept'
    <3> SUFFICES ASSUME NEW w \in Drainer, Claiming(w)', Single(actor[w].msg.job)',
                        row'[actor[w].msg.job].token = actor[w].msg.token
                 PROVE  row'[actor[w].msg.job].processing
      BY <2>9 DEF ClaimKept
    <3>1. w # a /\ Claiming(w) /\ actor[w].msg # None
      BY <2>3 DEF WInv, JobsShape, Claiming, Own
    <3> QED
      BY <2>2, <2>4, <2>5, <2>9, <3>1 DEF WInv, ClaimKept, Single
  <2>12. Consumed'
    <3> SUFFICES ASSUME NEW w \in Drainer, Passing(w)', actor[w].msg.token # None,
                        Sound(actor[w].msg.job)'
                 PROVE  row'[actor[w].msg.job].token # actor[w].msg.token
      BY <2>9 DEF Consumed
    <3>1. actor[w].msg # None
      BY <2>9, <2>7 DEF JobsShape, Passing
    <3>2. CASE actor[w].msg.job = j
      BY <2>2, <2>4, <3>1, <3>2
    <3>3. CASE actor[w].msg.job # j
      <4>1. Passing(w)
        BY <1>1, <2>3, <3>3 DEF Passing, Own
      <4>2. actor[w].msg.job \in Job /\ Sound(actor[w].msg.job)
        BY <2>5, <2>9, <3>1, <3>3 DEF Sound
      <4>3. row[actor[w].msg.job].token # actor[w].msg.token
        BY <4>1, <4>2 DEF WInv, Consumed
      <4> QED
        BY <2>4, <3>3, <4>2, <4>3
    <3> QED
      BY <3>2, <3>3
  <2>13. Held'
    BY <1>1, <2>3, <2>4, <2>5 DEF WInv, JobsShape, Held, Holding, Sound
  <2>14. Awaited'
    <3>1. Bringing(a, j)'
      BY <2>3, <2>4 DEF Bringing
    <3>2. \A b \in Jobs!Actor, i \in Job : i # j /\ Bringing(b, i) => Bringing(b, i)'
      BY <1>1, <2>3, <2>4 DEF Bringing
    <3> QED
      BY <1>1, <2>4, <2>5, <3>1, <3>2 DEF WInv, Awaited, Sound
  <2>15. Asked'
    <3> SUFFICES ASSUME NEW i \in Job, Jobs!Live(i)', Sound(i)', row'[i].token = None
                 PROVE  LET m == [job |-> i, token |-> None] IN
                        \/ actor'[Owner].pc = "wake" /\ actor'[Owner].job = i
                        \/ m \in queue /\ \A w \in Drainer : ~Leaving(w, m)'
      BY <1>1 DEF Asked
    <3>1. i # j
      BY <2>1, <2>4
    <3>2. Jobs!Live(i) /\ Sound(i) /\ row[i].token = None
      BY <2>4, <2>5, <3>1 DEF Jobs!Live, Sound
    <3>3. CASE actor[Owner].pc = "wake" /\ actor[Owner].job = i
      BY <1>1, <2>3, <3>1, <3>3
    <3>4. ASSUME NEW w \in Drainer, ~Leaving(w, [job |-> i, token |-> None])
          PROVE  ~Leaving(w, [job |-> i, token |-> None])'
      BY <1>1, <2>3, <3>1, <3>4 DEF WInv, JobsShape, Leaving
    <3> QED
      BY <3>2, <3>3, <3>4 DEF WInv, Asked
  <2> QED
    BY <2>6, <2>7, <2>8, <2>10, <2>11, <2>12, <2>13, <2>14, <2>15 DEF WInv
<1>3. CASE ~(Jobs!Live(j) /\ Jobs!Reservable(a, j))
  <2>1. /\ actor' = Jobs!Returned(a) /\ row' = row
        /\ seen' = Jobs!Noted(j, "broken", Jobs!Previous(a))
    BY <1>3 DEF Jobs!Reserve
  <2>2. /\ \A b \in Jobs!Actor : b # a => actor'[b] = actor[b]
        /\ a \in Drainer => /\ actor'[a].pc = "ack" /\ actor'[a].msg = actor[a].msg
                            /\ actor'[a].job = j
        /\ a \notin Drainer => actor'[a].pc = "idle" /\ actor'[a].msg = None
    BY <2>1, ReturnedIs DEF WInv
  <2>3. /\ seen' \in JobsSeen /\ \A i \in Job : seen[i] \subseteq seen'[i]
        /\ \A i \in Job : i # j \/ ~Jobs!Previous(a) => seen'[i] = seen[i]
        /\ Jobs!Previous(a) => "broken" \in seen'[j]
    <3> DEFINE previous == Jobs!Previous(a)
    <3>1. previous \in BOOLEAN
      BY DEF Jobs!Previous
    <3>2. seen' = Jobs!Noted(j, "broken", previous)
      BY <2>1
    <3> HIDE DEF previous
    <3>3. /\ seen' \in JobsSeen
          /\ \A i \in Job : seen'[i] = IF i = j /\ previous THEN seen[i] \union {"broken"}
                                       ELSE seen[i]
      BY <3>1, <3>2, NotedType DEF WInv
    <3> QED
      BY <3>3 DEF previous
  <2>4. JobsType' /\ JobsShape' /\ RowShape'
    BY <1>1, <2>1, <2>3, JobsReturnedType, ReturnedShape
    DEF WInv, JobsType, JobsActors, JobsSeen, RowShape
  <2>5. a \in Drainer /\ Jobs!Previous(a) => ~Sound(j)'
    BY <2>3 DEF Sound
  <2>6. a \in Drainer => actor[a].msg \in Jobs!Message /\ actor[a].msg.job \in Job
    BY <1>1 DEF WInv, JobsShape, Jobs!Message
  <2>7. /\ \A w \in Drainer : /\ actor'[w].msg = actor[w].msg
                              /\ actor[w].msg # None => actor[w].msg.job \in Job
        /\ \A i \in Job : (Single(i)' => Single(i)) /\ (Sound(i)' => Sound(i))
    BY <2>2, <2>3 DEF WInv, JobsType, WakerRecord, Jobs!Message, Single, Sound
  <2>8. OneDelivery'
    BY <1>1, <2>7 DEF WInv, OneDelivery
  <2>9. ClaimKept'
    <3> SUFFICES ASSUME NEW w \in Drainer, Claiming(w)', Single(actor[w].msg.job)',
                        row[actor[w].msg.job].token = actor[w].msg.token
                 PROVE  row[actor[w].msg.job].processing
      BY <2>1, <2>7 DEF ClaimKept
    <3>1. w # a /\ Claiming(w) /\ actor[w].msg # None
      BY <2>2 DEF WInv, JobsShape, Claiming, Own
    <3> QED
      BY <2>7, <3>1 DEF WInv, ClaimKept
  <2>10. Consumed'
    <3> SUFFICES ASSUME NEW w \in Drainer, Passing(w)', actor[w].msg.token # None,
                        Sound(actor[w].msg.job)'
                 PROVE  row[actor[w].msg.job].token # actor[w].msg.token
      BY <2>1, <2>7 DEF Consumed
    <3>1. actor[w].msg # None
      BY <2>4, <2>7 DEF JobsShape, Passing
    <3>2. CASE Passing(w)
      BY <2>7, <3>1, <3>2 DEF WInv, Consumed
    <3>3. CASE ~Passing(w)
      <4>1. w = a
        BY <2>2, <3>3 DEF Passing, Own
      <4>2. Own(a) /\ Claiming(a)
        BY <1>1, <3>3, <4>1 DEF Passing, Claiming
      <4>3. ~Jobs!Previous(a)
        BY <2>5, <2>7, <4>1, <4>2 DEF Own, Sound
      <4>4. row[j].token = actor[a].msg.token => row[j].processing
        BY <2>7, <3>1, <4>1, <4>2 DEF WInv, ClaimKept, Own, Single, Sound
      <4> QED
        BY <3>1, <4>1, <4>2, <4>3, <4>4 DEF Jobs!Previous, Jobs!Claims, Own
    <3> QED
      BY <3>2, <3>3
  <2>11. Held'
    <3> SUFFICES ASSUME NEW i \in Job, row[i].processing, Sound(i)'
                 PROVE  \E w \in Drainer : Holding(w, i)'
      BY <2>1 DEF Held
    <3>1. PICK w \in Drainer : Holding(w, i)
      BY <2>7 DEF WInv, Held
    <3>2. CASE w = a
      <4>1. actor[a].msg = [job |-> i, token |-> row[i].token] /\ i = j
        BY <1>1, <3>1, <3>2 DEF Holding
      <4>2. row[i].token # None
        BY DEF WInv, RowShape
      <4>3. Jobs!Previous(a)
        BY <3>2, <4>1, <4>2, <2>6 DEF Jobs!Previous, Jobs!Claims
      <4> QED
        BY <2>5, <3>2, <4>1, <4>3
    <3>3. CASE w # a
      BY <2>1, <2>2, <3>1, <3>3 DEF Holding
    <3> QED
      BY <3>2, <3>3
  <2>12. Awaited'
    <3>1. \A b \in Jobs!Actor, i \in Job : Bringing(b, i) => Bringing(b, i)'
      BY <1>1, <2>1, <2>2 DEF Bringing
    <3> QED
      BY <1>1, <2>1, <2>7, <3>1 DEF WInv, Awaited
  <2>13. Asked'
    <3> SUFFICES ASSUME NEW i \in Job, Jobs!Live(i), Sound(i)', row[i].token = None
                 PROVE  LET m == [job |-> i, token |-> None] IN
                        \/ actor'[Owner].pc = "wake" /\ actor'[Owner].job = i
                        \/ m \in queue /\ \A w \in Drainer : ~Leaving(w, m)'
      BY <1>1, <2>1 DEF Asked, Jobs!Live
    <3>1. i # j
      BY <1>3 DEF Jobs!Reservable
    <3>2. CASE actor[Owner].pc = "wake" /\ actor[Owner].job = i
      BY <1>1, <2>2, <3>1, <3>2
    <3>3. ASSUME NEW w \in Drainer, ~Leaving(w, [job |-> i, token |-> None])
          PROVE  ~Leaving(w, [job |-> i, token |-> None])'
      BY <1>1, <2>2, <3>1, <3>3 DEF WInv, JobsShape, Leaving
    <3> QED
      BY <2>7, <3>2, <3>3 DEF WInv, Asked
  <2> QED
    BY <2>4, <2>8, <2>9, <2>10, <2>11, <2>12, <2>13 DEF WInv
<1> QED
  BY <1>2, <1>3

LEMMA JobsSendKeeps ==
  ASSUME WInv, NEW a \in Jobs!Actor, Jobs!Send(a) \/ Jobs!SendFails(a)
  PROVE  WInv'
<1> USE NoneOutside
<1> DEFINE sent == Jobs!Sent(a)
<1>1. /\ actor[a].pc = "send" /\ UNCHANGED <<row, seen>> /\ faults' \in 0..Faults
      /\ actor[a].job \in Job /\ actor[a].new \in Jobs!WakeToken
  BY DEF WInv, JobsType, JobsShape, Jobs!Send, Jobs!SendFails, Jobs!At, Jobs!Fault
<1>2. sent = [job |-> actor[a].job, token |-> actor[a].new] /\ sent \in Jobs!Message
  BY <1>1 DEF Jobs!Sent, Jobs!Message
<1> HIDE DEF sent
<1>3. queue \subseteq queue' /\ queue' \subseteq queue \union {sent}
  BY DEF Jobs!Send, Jobs!SendFails, sent
<1>4. \/ actor' = Jobs!Returned(a) /\ sent \in queue'
      \/ actor' = [actor EXCEPT ![a].pc = "restore"]
  BY DEF Jobs!Send, Jobs!SendFails, Jobs!Goto, sent
<1>5. /\ \A b \in Jobs!Actor : b # a => actor'[b] = actor[b]
      /\ actor'[a].pc \in {"ack", "restore", "idle"}
      /\ a \in Drainer => /\ actor'[a].pc \in {"ack", "restore"}
                          /\ actor'[a].msg = actor[a].msg /\ actor'[a].job = actor[a].job
      /\ \/ sent \in queue'
         \/ /\ actor'[a].pc = "restore" /\ actor'[a].job = actor[a].job
            /\ actor'[a].new = actor[a].new
  <2>1. CASE actor' = Jobs!Returned(a) /\ sent \in queue'
    BY <2>1, ReturnedIs DEF WInv
  <2>2. CASE actor' = [actor EXCEPT ![a].pc = "restore"]
    BY <2>2 DEF WInv, JobsType, WakerRecord
  <2> QED
    BY <1>4, <2>1, <2>2
<1>6. JobsType'
  <2>1. actor' \in JobsActors
    <3>1. [actor EXCEPT ![a].pc = "restore"] \in JobsActors
      BY <1>1, WakerType DEF WInv, Waking
    <3> QED
      BY <1>4, <3>1, JobsReturnedType DEF WInv
  <2> QED
    BY <1>1, <1>2, <1>3, <2>1 DEF WInv, JobsType, JobsActors
<1>7. JobsShape'
  <2>1. CASE actor' = Jobs!Returned(a)
    BY <1>1, <2>1, ReturnedShape DEF WInv
  <2>2. CASE actor' = [actor EXCEPT ![a].pc = "restore"]
    <3>1. /\ actor'[a].pc = "restore" /\ actor'[a].msg = actor[a].msg
          /\ actor'[a].job = actor[a].job /\ actor'[a].new = actor[a].new
      BY <2>2 DEF WInv, JobsType, WakerRecord
    <3> QED
      BY <1>1, <1>5, <3>1 DEF WInv, JobsShape, Waking, Bound
  <2> QED
    BY <1>4, <2>1, <2>2
<1>8. RowShape'
  BY <1>1 DEF WInv, RowShape
<1>9. \A w \in Drainer : /\ actor'[w].msg = actor[w].msg
                         /\ actor[w].msg # None => actor[w].msg.job \in Job
  BY <1>5 DEF WInv, JobsType, WakerRecord, Jobs!Message
<1>10. OneDelivery'
  BY <1>1, <1>3, <1>9 DEF WInv, OneDelivery, Single
<1>11. \A w \in Drainer : /\ Claiming(w)' => Claiming(w)
                          /\ Passing(w)' => Passing(w)
                          /\ \A j \in Job : Holding(w, j) => Holding(w, j)'
  BY <1>1, <1>5 DEF Claiming, Passing, Holding, Own
<1>12. ClaimKept' /\ Consumed' /\ Held'
  <2>1. ClaimKept'
    BY <1>1, <1>9, <1>11 DEF WInv, ClaimKept, Single
  <2>2. Consumed'
    BY <1>1, <1>9, <1>11 DEF WInv, Consumed, Sound
  <2>3. Held'
    BY <1>1, <1>11 DEF WInv, Held, Sound
  <2> QED
    BY <2>1, <2>2, <2>3
<1>13. Awaited'
  <2> SUFFICES ASSUME NEW j \in Job, Sound(j), row[j].token # None,
                      [job |-> j, token |-> row[j].token] \notin queue'
               PROVE  ~row[j].processing /\ \E b \in Jobs!Actor : Bringing(b, j)'
    BY <1>1 DEF Awaited, Sound
  <2>1. PICK b \in Jobs!Actor : ~row[j].processing /\ Bringing(b, j)
    BY <1>3 DEF WInv, Awaited
  <2> QED
    BY <1>1, <1>2, <1>5, <2>1 DEF Bringing
<1>14. Asked'
  <2> SUFFICES ASSUME NEW j \in Job, Jobs!Live(j), Sound(j), row[j].token = None
               PROVE  LET m == [job |-> j, token |-> None] IN
                      \/ actor'[Owner].pc = "wake" /\ actor'[Owner].job = j
                      \/ m \in queue' /\ \A w \in Drainer : ~Leaving(w, m)'
    BY <1>1 DEF Asked, Jobs!Live, Sound
  <2>1. CASE actor[Owner].pc = "wake" /\ actor[Owner].job = j
    BY <1>1, <1>5, <2>1
  <2>2. ASSUME NEW w \in Drainer, ~Leaving(w, [job |-> j, token |-> None])
        PROVE  ~Leaving(w, [job |-> j, token |-> None])'
    BY <1>1, <1>5, <2>2 DEF Leaving
  <2> QED
    BY <1>3, <2>1, <2>2 DEF WInv, Asked
<1> QED
  BY <1>6, <1>7, <1>8, <1>10, <1>12, <1>13, <1>14 DEF WInv

\* The consumed token that comes back is nobody else's message.
LEMMA JobsRestoreKeeps ==
  ASSUME WInv, NEW a \in Jobs!Actor, Jobs!Restore(a) \/ Jobs!RestoreFails(a)
  PROVE  WInv'
<1> USE NoneOutside
<1>0. /\ actor[a].pc = "restore" /\ UNCHANGED queue /\ faults' \in 0..Faults
      /\ actor' = Jobs!Thrown(a)
      /\ actor[a].job \in Job /\ actor[a].new \in Jobs!WakeToken
  BY DEF WInv, JobsType, JobsShape, Jobs!Restore, Jobs!RestoreFails, Jobs!At, Jobs!Fault
<1> PICK j \in Job : j = actor[a].job
  BY <1>0
<1>1. /\ \A b \in Jobs!Actor : b # a => actor'[b] = actor[b]
      /\ a \in Drainer => /\ actor'[a].pc = "failed" /\ actor'[a].msg = actor[a].msg
                          /\ actor'[a].job = j
      /\ a \notin Drainer => actor'[a].pc = "idle" /\ actor'[a].msg = None
  BY <1>0, ReturnedIs DEF WInv
<1>2. a \in Drainer => actor[a].msg \in Jobs!Message /\ actor[a].msg.job \in Job
  BY <1>0 DEF WInv, JobsShape, Jobs!Message
\* Either the row keeps its token, or it gets the one that the message at hand
\* carries.
<1>3. PICK t \in Jobs!WakeToken \union {None}, restored \in BOOLEAN, broken \in BOOLEAN :
        /\ restored => /\ t # None => a \in Drainer /\ actor[a].msg = [job |-> j, token |-> t]
                       /\ t = None => broken
                       /\ row' = [row EXCEPT ![j] = [Jobs!Wake(row[j], t) EXCEPT !.reserved = FALSE]]
        /\ ~restored => /\ row' = row
                        /\ row[j].token # actor[a].new \/ row[j].processing \/ broken
        /\ seen' = Jobs!Noted(j, "broken", broken)
  <2>1. CASE Jobs!RestoreFails(a)
    <3> DEFINE broken == row[j].token = actor[a].new
    <3>1. row' = row /\ seen' = Jobs!Noted(j, "broken", broken) /\ broken \in BOOLEAN
      BY <2>1 DEF Jobs!RestoreFails
    <3> WITNESS None \in Jobs!WakeToken \union {None}, FALSE \in BOOLEAN, broken \in BOOLEAN
    <3> QED
      BY <3>1
  <2>2. CASE Jobs!Restore(a) /\ row[j].token = actor[a].new /\ ~row[j].processing
    <3> DEFINE t == Jobs!Restored(a)
               broken == a \notin Drainer \/ actor[a].msg \notin [job : {j}, token : Jobs!WakeToken]
    <3>1. /\ row' = [row EXCEPT ![j] = [Jobs!Wake(row[j], t) EXCEPT !.reserved = FALSE]]
          /\ seen' = Jobs!Noted(j, "broken", broken) /\ broken \in BOOLEAN
      BY <2>2 DEF Jobs!Restore
    <3>2. /\ t \in Jobs!WakeToken \union {None}
          /\ t # None => a \in Drainer /\ actor[a].msg = [job |-> j, token |-> t]
          /\ t = None => broken
      BY <1>2 DEF Jobs!Restored, Jobs!Message
    <3> HIDE DEF t, broken
    <3> USE <3>1, <3>2
    <3> WITNESS t \in Jobs!WakeToken \union {None}, TRUE \in BOOLEAN, broken \in BOOLEAN
    <3> QED
      BY <3>1, <3>2
  <2>3. CASE Jobs!Restore(a) /\ ~(row[j].token = actor[a].new /\ ~row[j].processing)
    <3>1. row' = row /\ seen' = Jobs!Noted(j, "broken", FALSE)
      BY <2>3 DEF Jobs!Restore, Jobs!Noted
    <3> WITNESS None \in Jobs!WakeToken \union {None}, FALSE \in BOOLEAN, FALSE \in BOOLEAN
    <3> QED
      BY <2>3, <3>1
  <2> QED
    BY <2>1, <2>2, <2>3
<1>4. /\ row' \in [Job -> RowRecord]
      /\ \A i \in Job : /\ row'[i].status = row[i].status /\ row'[i].holder = row[i].holder
                        /\ row'[i].todo = row[i].todo
                        /\ i # j => row'[i] = row[i]
      /\ restored => row'[j].token = t /\ ~row'[j].processing
  <2>1. row \in [Job -> RowRecord] /\ row[j] \in RowRecord
    BY DEF WInv, JobsType
  <2> DEFINE r == [Jobs!Wake(row[j], t) EXCEPT !.reserved = FALSE]
  <2>2. /\ r \in RowRecord /\ r.token = t /\ ~r.processing /\ r.status = row[j].status
        /\ r.holder = row[j].holder /\ r.todo = row[j].todo
    BY <2>1 DEF RowRecord, Jobs!Wake
  <2> HIDE DEF r, RowRecord
  <2>3. restored => row' = [row EXCEPT ![j] = r]
    BY <1>3 DEF r
  <2> QED
    BY <1>3, <2>1, <2>2, <2>3
<1>5. /\ seen' \in JobsSeen
      /\ \A i \in Job : /\ seen[i] \subseteq seen'[i]
                        /\ (Single(i)' => Single(i)) /\ (Sound(i)' => Sound(i))
      /\ broken => ~Sound(j)'
  <2>1. /\ seen' \in JobsSeen
        /\ \A i \in Job : seen'[i] = IF i = j /\ broken THEN seen[i] \union {"broken"}
                                     ELSE seen[i]
    BY <1>3, NotedType DEF WInv
  <2> QED
    BY <2>1 DEF Single, Sound
<1>6. JobsType' /\ JobsShape' /\ RowShape'
  <2>1. JobsType'
    BY <1>0, <1>4, <1>5, JobsReturnedType DEF WInv, JobsType, JobsActors, JobsSeen
  <2>2. JobsShape'
    BY <1>0, ReturnedShape DEF WInv
  <2>3. RowShape'
    BY <1>3, <1>4 DEF WInv, RowShape
  <2> QED
    BY <2>1, <2>2, <2>3
<1>7. \A w \in Drainer : /\ actor'[w].msg = actor[w].msg
                         /\ actor[w].msg # None => /\ actor[w].msg \in Jobs!Message
                                                   /\ actor[w].msg.job \in Job
  BY <1>1 DEF WInv, JobsType, WakerRecord, Jobs!Message
<1>8. OneDelivery'
  BY <1>0, <1>5, <1>7 DEF WInv, OneDelivery
<1>9. \A w \in Drainer : /\ Claiming(w)' => Claiming(w) /\ w # a /\ actor[w].msg # None
                         /\ Passing(w)' => Passing(w) /\ actor[w].msg # None
                         /\ \A i \in Job : Holding(w, i) => w # a
  BY <1>0, <1>1 DEF WInv, JobsShape, Claiming, Passing, Holding, Own
\* Nobody else has the message that got its token back.
<1>10. ASSUME NEW w \in Drainer, w # a, restored, actor[w].msg # None,
              actor[w].msg.job = j, Single(j), actor[w].msg.token # None
       PROVE  actor[w].msg.token # t
  <2>1. t # None => actor[a].msg # actor[w].msg
    BY <1>3, <1>10 DEF WInv, OneDelivery
  <2> QED
    BY <1>3, <1>7, <1>10, <2>1 DEF Jobs!Message
<1>11. ClaimKept'
  <2> SUFFICES ASSUME NEW w \in Drainer, Claiming(w)', Single(actor[w].msg.job)',
                      row'[actor[w].msg.job].token = actor[w].msg.token
               PROVE  row'[actor[w].msg.job].processing
    BY <1>7 DEF ClaimKept
  <2>1. /\ Claiming(w) /\ w # a /\ actor[w].msg # None /\ actor[w].msg.token # None
        /\ Single(actor[w].msg.job) /\ actor[w].msg.job \in Job
    BY <1>5, <1>7, <1>9 DEF WInv, JobsShape, Claiming, Bound, Single
  <2>2. ~restored \/ actor[w].msg.job # j
    BY <1>4, <1>10, <2>1
  <2> QED
    BY <1>3, <1>4, <2>1, <2>2 DEF WInv, ClaimKept
<1>12. Consumed'
  <2> SUFFICES ASSUME NEW w \in Drainer, Passing(w)', actor[w].msg.token # None,
                      Sound(actor[w].msg.job)'
               PROVE  row'[actor[w].msg.job].token # actor[w].msg.token
    BY <1>7 DEF Consumed
  <2>1. /\ Passing(w) /\ actor[w].msg # None
        /\ Sound(actor[w].msg.job) /\ actor[w].msg.job \in Job
    BY <1>5, <1>7, <1>9 DEF Sound
  <2>2. CASE restored /\ actor[w].msg.job = j
    <3>1. w # a
      BY <1>1, <1>3, <2>2 DEF Passing, Own
    <3> QED
      BY <1>4, <1>10, <2>1, <2>2, <3>1 DEF Single, Sound
  <2>3. CASE ~restored \/ actor[w].msg.job # j
    BY <1>3, <1>4, <2>1, <2>3 DEF WInv, Consumed
  <2> QED
    BY <2>2, <2>3
<1>13. Held'
  BY <1>1, <1>3, <1>4, <1>5, <1>9 DEF WInv, Held, Holding
<1>14. Awaited'
  <2> SUFFICES ASSUME NEW i \in Job, Sound(i)', row'[i].token # None,
                      [job |-> i, token |-> row'[i].token] \notin queue
               PROVE  ~row'[i].processing /\ \E b \in Jobs!Actor : Bringing(b, i)'
    BY <1>0 DEF Awaited
  <2>1. Sound(i)
    BY <1>5
  <2>2. ~(restored /\ i = j)
    <3> SUFFICES ASSUME restored, i = j PROVE FALSE
      OBVIOUS
    <3>1. a \in Drainer /\ actor[a].msg = [job |-> j, token |-> t] /\ row'[j].token = t
      BY <1>3, <1>4
    <3>2. Single(actor[a].msg.job) /\ actor[a].msg # None
      BY <1>2, <2>1, <3>1 DEF Single, Sound
    <3> QED
      BY <3>1, <3>2 DEF WInv, OneDelivery
  <2>3. row'[i] = row[i]
    BY <1>3, <1>4, <2>2
  <2>4. PICK b \in Jobs!Actor : ~row[i].processing /\ Bringing(b, i)
    BY <2>1, <2>3 DEF WInv, Awaited
  <2>5. b # a
    BY <1>3, <1>5, <2>2, <2>4 DEF Bringing
  <2> QED
    BY <1>1, <2>3, <2>4, <2>5 DEF Bringing
<1>15. Asked'
  <2> SUFFICES ASSUME NEW i \in Job, Jobs!Live(i)', Sound(i)', row'[i].token = None
               PROVE  LET m == [job |-> i, token |-> None] IN
                      \/ actor'[Owner].pc = "wake" /\ actor'[Owner].job = i
                      \/ m \in queue /\ \A w \in Drainer : ~Leaving(w, m)'
    BY <1>0 DEF Asked
  <2>1. Sound(i) /\ row[i].token = None /\ Jobs!Live(i)
    BY <1>3, <1>4, <1>5 DEF Jobs!Live
  <2>2. CASE actor[Owner].pc = "wake" /\ actor[Owner].job = i
    BY <1>0, <1>1, <2>2
  <2>3. ASSUME NEW w \in Drainer, ~Leaving(w, [job |-> i, token |-> None])
        PROVE  ~Leaving(w, [job |-> i, token |-> None])'
    BY <1>0, <1>1, <2>3 DEF Leaving
  <2> QED
    BY <2>1, <2>2, <2>3 DEF WInv, Asked
<1> QED
  BY <1>6, <1>8, <1>11, <1>12, <1>13, <1>14, <1>15 DEF WInv
-----------------------------------------------------------------------------
(* consumeOne: a message arrives, its claim, its end.                      *)
LEMMA JobsDeliverKeeps ==
  ASSUME WInv, NEW w \in Drainer, NEW m \in queue, NEW run \in BOOLEAN,
         Jobs!Deliver(w, m, run)
  PROVE  WInv'
<1> USE NoneOutside
<1>1. /\ actor[w].pc = "idle" /\ w \in Jobs!Actor /\ UNCHANGED <<row, queue, faults>>
      /\ m \in Jobs!Message /\ m.job \in Job /\ m.token \in Jobs!WakeToken \union {None}
      /\ actor[w].msg = None
  BY DEF WInv, JobsType, JobsShape, Jobs!Deliver, Jobs!At, Jobs!Message
<1>2. /\ actor'[w].pc = IF m.token # None THEN "claim" ELSE IF Jobs!Live(m.job) THEN "wake" ELSE "ack"
      /\ actor'[w].job = m.job /\ actor'[w].msg = m
      /\ \A b \in Jobs!Actor : b # w => actor'[b] = actor[b]
      /\ actor' \in JobsActors
  <2> DEFINE pc == IF m.token # None THEN "claim" ELSE IF Jobs!Live(m.job) THEN "wake" ELSE "ack"
             new == IF Jobs!Live(m.job) THEN None ELSE m.token
             ready == run /\ ~row[m.job].rest /\ ~row[m.job].lease
             r == [Jobs!Idle EXCEPT !.job = m.job, !.msg = m, !.pc = pc, !.new = new, !.ready = ready]
  <2>1. actor' = [actor EXCEPT ![w] = r]
    BY DEF Jobs!Deliver
  <2>2. /\ pc \in {"claim", "wake", "ack"} /\ new \in Jobs!WakeToken \union {None}
        /\ ready \in BOOLEAN
    BY <1>1
  <2> HIDE DEF pc, new, ready
  <2>3. /\ r \in WakerRecord /\ r.pc = pc /\ r.job = m.job /\ r.msg = m
    BY <1>1, <2>2 DEF WakerRecord, Jobs!Idle, Waking, Bound
  <2> HIDE DEF r
  <2> QED
    BY <1>1, <2>1, <2>3 DEF WInv, JobsType, JobsActors, pc
<1>3. /\ seen' \in JobsSeen
      /\ \A i \in Job : /\ (Single(i)' => Single(i)) /\ (Sound(i)' => Sound(i))
      /\ Single(m.job)' => \A v \in Drainer : actor[v].msg # m
  <2> DEFINE twice == \E v \in Drainer : actor[v].msg = m
  <2>1. seen' = Jobs!Noted(m.job, "twice", twice) /\ twice \in BOOLEAN
    BY DEF Jobs!Deliver
  <2> HIDE DEF twice
  <2>2. /\ seen' \in JobsSeen
        /\ \A i \in Job : seen'[i] = IF i = m.job /\ twice THEN seen[i] \union {"twice"}
                                     ELSE seen[i]
    BY <1>1, <2>1, NotedType DEF WInv
  <2>3. Single(m.job)' => ~twice
    BY <1>1, <2>2 DEF Single
  <2> QED
    BY <2>2, <2>3 DEF Single, Sound, twice
<1>4. JobsType' /\ JobsShape' /\ RowShape'
  <2>1. JobsType'
    BY <1>1, <1>2, <1>3 DEF WInv, JobsType, JobsActors, JobsSeen
  <2>2. JobsShape'
    BY <1>1, <1>2 DEF WInv, JobsShape, Waking, Bound
  <2>3. RowShape'
    BY <1>1 DEF WInv, RowShape
  <2> QED
    BY <2>1, <2>2, <2>3
<1>5. \A v \in Drainer : actor[v].msg # None => actor[v].msg.job \in Job
  BY DEF WInv, JobsType, WakerRecord, Jobs!Message
<1>6. OneDelivery'
  <2> SUFFICES ASSUME NEW v \in Drainer, actor'[v].msg # None, Single(actor[v].msg.job)'
               PROVE  /\ actor'[v].msg \in queue
                      /\ \A u \in Drainer : actor'[u].msg = actor'[v].msg => u = v
    BY <1>1 DEF OneDelivery
  <2>1. CASE v = w
    BY <1>2, <1>3, <2>1
  <2>2. CASE v # w
    BY <1>2, <1>3, <1>5, <2>2 DEF WInv, OneDelivery
  <2> QED
    BY <2>1, <2>2
<1>7. /\ \A v \in Drainer : /\ Claiming(v)' => Claiming(v) /\ v # w
                            /\ Passing(v)' /\ actor'[v].msg.token # None => Passing(v) /\ v # w
                            /\ \A j \in Job : Holding(v, j) => Holding(v, j)' /\ v # w
      /\ \A b \in Jobs!Actor, j \in Job : Bringing(b, j) => Bringing(b, j)'
  BY <1>1, <1>2 DEF Claiming, Passing, Holding, Own, Bringing
<1>8. \A v \in Drainer : Claiming(v) \/ Passing(v) => actor[v].msg # None
  BY DEF WInv, JobsShape, Claiming, Passing
<1>9. ClaimKept'
  BY <1>1, <1>2, <1>3, <1>5, <1>7, <1>8 DEF WInv, ClaimKept
<1>10. Consumed'
  BY <1>1, <1>2, <1>3, <1>5, <1>7, <1>8 DEF WInv, Consumed
<1>11. Held' /\ Awaited'
  BY <1>1, <1>3, <1>7 DEF WInv, Held, Awaited
<1>12. Asked'
  <2> SUFFICES ASSUME NEW j \in Job, Jobs!Live(j), Sound(j), row[j].token = None
               PROVE  LET a == [job |-> j, token |-> None] IN
                      \/ actor'[Owner].pc = "wake" /\ actor'[Owner].job = j
                      \/ a \in queue /\ \A v \in Drainer : ~Leaving(v, a)'
    BY <1>1, <1>3 DEF Asked, Jobs!Live
  <2>1. CASE actor[Owner].pc = "wake" /\ actor[Owner].job = j
    BY <1>2, <2>1
  <2>2. ASSUME NEW v \in Drainer, ~Leaving(v, [job |-> j, token |-> None])
        PROVE  ~Leaving(v, [job |-> j, token |-> None])'
    BY <1>1, <1>2, <2>2 DEF Leaving
  <2> QED
    BY <2>1, <2>2 DEF WInv, Asked
<1> QED
  BY <1>4, <1>6, <1>9, <1>10, <1>11, <1>12 DEF WInv

\* A claim is of the row's token; a claim that fails though the row has the token
\* meets the run of a second delivery, or a job that is not live.
LEMMA JobsClaimKeeps ==
  ASSUME WInv, NEW w \in Drainer, Jobs!Claim(w)
  PROVE  WInv'
<1> USE NoneOutside
<1>0. /\ actor[w].pc = "claim" /\ UNCHANGED <<queue, faults>> /\ w \in Jobs!Actor
      /\ actor[w].job \in Job
  BY DEF WInv, JobsShape, Jobs!Claim, Jobs!At
<1> PICK j \in Job : j = actor[w].job
  BY <1>0
<1>1. /\ actor[w].msg \in Jobs!Message /\ actor[w].msg.token \in Jobs!WakeToken
      /\ actor[w].msg.job = j /\ actor[w].msg # None
      /\ actor[w].msg = [job |-> j, token |-> actor[w].msg.token]
  BY <1>0 DEF WInv, JobsShape, Bound, Jobs!Message
<1> DEFINE claimed == Jobs!Live(j) /\ Jobs!Claimable(w)
<1>2. PICK pc \in {"ack", "drain", "reread", "look"}, broken \in BOOLEAN :
        /\ actor' = [actor EXCEPT ![w].new = None, ![w].pc = pc]
        /\ seen' = Jobs!Noted(j, "broken", broken)
        /\ claimed => /\ row' = [row EXCEPT ![j].processing = TRUE, ![j].reserved = TRUE]
                      /\ row[j].token = actor[w].msg.token
                      /\ pc # "look" /\ (pc = "ack" => broken)
        /\ ~claimed => /\ row' = row /\ pc = "look"
                       /\ row[j].token = actor[w].msg.token => broken \/ row[j].processing
  <2>1. CASE claimed
    <3> DEFINE broken == actor[w].new # None
               pc == IF actor[w].new # None THEN "ack"
                     ELSE IF actor[w].ready THEN "drain" ELSE "reread"
    <3>1. /\ actor' = [actor EXCEPT ![w].new = None, ![w].pc = pc]
          /\ seen' = Jobs!Noted(j, "broken", broken)
          /\ row' = [row EXCEPT ![j].processing = TRUE, ![j].reserved = TRUE]
          /\ row[j].token = actor[w].msg.token
      BY <2>1 DEF Jobs!Claim, Jobs!Claimable
    <3>2. /\ pc \in {"ack", "drain", "reread"} /\ broken \in BOOLEAN
          /\ (pc = "ack" => broken)
      OBVIOUS
    <3> HIDE DEF pc, broken, claimed
    <3> QED
      BY <2>1, <3>1, <3>2
  <2>2. CASE ~claimed
    <3> DEFINE broken == ~Jobs!Live(j) /\ row[j].token = actor[w].msg.token
    <3>1. /\ actor' = [actor EXCEPT ![w].pc = "look", ![w].new = None]
          /\ seen' = Jobs!Noted(j, "broken", broken) /\ row' = row
      BY <2>2 DEF Jobs!Claim
    <3>2. actor' = [actor EXCEPT ![w].new = None, ![w].pc = "look"]
      BY <1>0, <3>1 DEF WInv, JobsType, WakerRecord
    <3>3. row[j].token = actor[w].msg.token => broken \/ row[j].processing
      BY <2>2 DEF Jobs!Claimable
    <3>4. broken \in BOOLEAN
      BY DEF Jobs!Live
    <3> HIDE DEF broken, claimed
    <3> QED
      BY <2>2, <3>1, <3>2, <3>3, <3>4
  <2> QED
    BY <2>1, <2>2
<1> HIDE DEF claimed
<1>3. /\ actor'[w].pc = pc /\ actor'[w].job = j /\ actor'[w].msg = actor[w].msg
      /\ \A b \in Jobs!Actor : b # w => actor'[b] = actor[b]
  BY <1>0, <1>2 DEF WInv, JobsType, WakerRecord
<1>4. /\ seen' \in JobsSeen
      /\ \A i \in Job : (Single(i)' => Single(i)) /\ (Sound(i)' => Sound(i))
      /\ broken => ~Sound(j)'
  <2>1. seen' = Jobs!Noted(j, "broken", broken) /\ JobsType
    BY <1>2 DEF WInv
  <2>2. /\ seen' \in JobsSeen
        /\ \A i \in Job : seen'[i] = IF i = j /\ broken THEN seen[i] \union {"broken"}
                                     ELSE seen[i]
    <3>1. broken \in BOOLEAN /\ "broken" \in {"broken", "twice"}
      OBVIOUS
    <3>2. /\ Jobs!Noted(j, "broken", broken) \in JobsSeen
          /\ \A i \in Job : Jobs!Noted(j, "broken", broken)[i] =
               IF i = j /\ broken THEN seen[i] \union {"broken"} ELSE seen[i]
      BY <2>1, <3>1, NotedType
    <3> QED
      BY <2>1, <3>2
  <2> QED
    BY <2>2 DEF Single, Sound
<1>5. /\ row' \in [Job -> RowRecord]
      /\ \A i \in Job : /\ row'[i].status = row[i].status /\ row'[i].holder = row[i].holder
                        /\ row'[i].todo = row[i].todo /\ row'[i].token = row[i].token
                        /\ i # j \/ ~claimed => row'[i].processing = row[i].processing
                        /\ row[i].processing => row'[i].processing
      /\ claimed => row'[j].processing
  <2>1. row \in [Job -> RowRecord] /\ row[j] \in RowRecord
    BY DEF WInv, JobsType
  <2> DEFINE r == [row[j] EXCEPT !.processing = TRUE, !.reserved = TRUE]
  <2>2. /\ r \in RowRecord /\ r.token = row[j].token /\ r.processing /\ r.status = row[j].status
        /\ r.holder = row[j].holder /\ r.todo = row[j].todo
    BY <2>1 DEF RowRecord
  <2>3. claimed => row' = [row EXCEPT ![j] = r]
    BY <1>2, <2>1
  <2> HIDE DEF r, RowRecord
  <2> QED
    BY <1>2, <2>1, <2>2, <2>3
<1>6. JobsType' /\ JobsShape' /\ RowShape'
  <2>1. actor' \in JobsActors
    BY <1>0, <1>2, WakerType DEF WInv, Bound
  <2>2. JobsType'
    BY <1>0, <1>4, <1>5, <2>1 DEF WInv, JobsType, JobsActors, JobsSeen
  <2>3. JobsShape'
    <3>1. pc \notin {"idle", "send", "restore"} /\ actor'[w].msg.token # None
      BY <1>1, <1>3
    <3> QED
      BY <1>1, <1>3, <3>1 DEF WInv, JobsShape
  <2>4. RowShape'
    BY <1>1, <1>2, <1>5 DEF WInv, RowShape
  <2> QED
    BY <2>2, <2>3, <2>4
<1>7. \A v \in Drainer : /\ actor'[v].msg = actor[v].msg
                         /\ actor[v].msg # None => actor[v].msg.job \in Job
  BY <1>3 DEF WInv, JobsType, WakerRecord, Jobs!Message
<1>8. OneDelivery'
  BY <1>0, <1>4, <1>7 DEF WInv, OneDelivery
<1>9. \A v \in Drainer : v # w => /\ Claiming(v)' => Claiming(v)
                                  /\ Passing(v)' => Passing(v)
                                  /\ \A i \in Job : Holding(v, i) => Holding(v, i)'
  BY <1>3, <1>5 DEF Claiming, Passing, Holding, Own
<1>10. \A v \in Drainer : Claiming(v) \/ Passing(v) => actor[v].msg # None
  BY DEF WInv, JobsShape, Claiming, Passing
<1>11. ClaimKept'
  <2> SUFFICES ASSUME NEW v \in Drainer, Claiming(v)', Single(actor[v].msg.job)',
                      row[actor[v].msg.job].token = actor[v].msg.token
               PROVE  row'[actor[v].msg.job].processing
    <3>1. \A v \in Drainer : Claiming(v)' => actor[v].msg.job \in Job
      BY <1>1, <1>7, <1>9, <1>10
    <3> QED
      BY <1>5, <1>7, <3>1 DEF ClaimKept
  <2>1. CASE v = w
    <3>1. claimed
      BY <1>1, <1>2, <1>3, <2>1 DEF Claiming
    <3> QED
      BY <1>1, <1>5, <2>1, <3>1
  <2>2. CASE v # w
    BY <1>4, <1>5, <1>7, <1>9, <1>10, <2>2 DEF WInv, ClaimKept
  <2> QED
    BY <2>1, <2>2
<1>12. Consumed'
  <2> SUFFICES ASSUME NEW v \in Drainer, Passing(v)', actor[v].msg.token # None,
                      Sound(actor[v].msg.job)'
               PROVE  row[actor[v].msg.job].token # actor[v].msg.token
    BY <1>1, <1>5, <1>7, <1>10, <1>9 DEF Consumed
  <2>1. CASE v # w
    BY <1>4, <1>7, <1>9, <1>10, <2>1 DEF WInv, Consumed
  <2>2. CASE v = w
    <3>1. Sound(j)' /\ Sound(j) /\ Single(j) /\ ~broken
      BY <1>1, <1>3, <1>4, <2>2 DEF Sound, Single
    <3>2. pc = "look" /\ ~claimed
      BY <1>1, <1>2, <1>3, <2>2, <3>1 DEF Passing, Own
    <3>3. ASSUME row[j].token = actor[w].msg.token
          PROVE  FALSE
      <4>1. PICK u \in Drainer : Holding(u, j)
        BY <1>2, <3>1, <3>2, <3>3 DEF WInv, Held
      <4>2. u # w /\ actor[u].msg = actor[w].msg
        BY <1>0, <1>1, <3>3, <4>1 DEF Holding
      <4> QED
        BY <1>1, <3>1, <4>2 DEF WInv, OneDelivery
    <3> QED
      BY <1>1, <2>2, <3>3
  <2> QED
    BY <2>1, <2>2
<1>13. Held'
  <2> SUFFICES ASSUME NEW i \in Job, row'[i].processing, Sound(i)'
               PROVE  \E v \in Drainer : Holding(v, i)'
    BY DEF Held
  <2>1. CASE i = j /\ claimed
    BY <1>1, <1>2, <1>3, <1>4, <1>5, <2>1 DEF Holding
  <2>2. CASE ~(i = j /\ claimed)
    <3>1. PICK v \in Drainer : Holding(v, i)
      BY <1>4, <1>5, <2>2 DEF WInv, Held
    <3> QED
      BY <1>0, <1>9, <3>1 DEF Holding
  <2> QED
    BY <2>1, <2>2
<1>14. Awaited'
  <2> SUFFICES ASSUME NEW i \in Job, Sound(i), row[i].token # None,
                      [job |-> i, token |-> row[i].token] \notin queue
               PROVE  ~row'[i].processing /\ \E b \in Jobs!Actor : Bringing(b, i)'
    BY <1>0, <1>4, <1>5 DEF Awaited
  <2>1. PICK b \in Jobs!Actor : ~row[i].processing /\ Bringing(b, i)
    BY DEF WInv, Awaited
  <2>2. ~(i = j /\ claimed)
    <3> SUFFICES ASSUME i = j, claimed PROVE FALSE
      OBVIOUS
    <3>1. Single(actor[w].msg.job) /\ row[j].token = actor[w].msg.token
      BY <1>1, <1>2 DEF Single, Sound
    <3> QED
      BY <1>1, <3>1 DEF WInv, OneDelivery
  <2> QED
    BY <1>0, <1>3, <1>5, <2>1, <2>2 DEF Bringing
<1>15. Asked'
  <2> SUFFICES ASSUME NEW i \in Job, Jobs!Live(i), Sound(i), row[i].token = None
               PROVE  LET m == [job |-> i, token |-> None] IN
                      \/ actor'[Owner].pc = "wake" /\ actor'[Owner].job = i
                      \/ m \in queue /\ \A v \in Drainer : ~Leaving(v, m)'
    BY <1>0, <1>4, <1>5 DEF Asked, Jobs!Live
  <2>1. CASE actor[Owner].pc = "wake" /\ actor[Owner].job = i
    BY <1>3, <2>1
  <2>2. ASSUME NEW v \in Drainer, ~Leaving(v, [job |-> i, token |-> None])
        PROVE  ~Leaving(v, [job |-> i, token |-> None])'
    BY <1>1, <1>3, <2>2 DEF Leaving
  <2> QED
    BY <2>1, <2>2 DEF WInv, Asked
<1> QED
  BY <1>6, <1>8, <1>11, <1>12, <1>13, <1>14, <1>15 DEF WInv

\* A waker is done, and leaves what it says it leaves: a consumer a claim that is
\* not its message's any more, an actor that dies a broken chain.
LEMMA GoneKeeps ==
  ASSUME WInv, NEW a \in Jobs!Actor, actor' = [actor EXCEPT ![a] = Jobs!Idle],
         UNCHANGED row, faults' \in 0..Faults, seen' \in JobsSeen,
         \A j \in Job : seen[j] \subseteq seen'[j],
         \/ queue' = queue
         \/ /\ a \in Drainer /\ queue' = queue \ {actor[a].msg}
            /\ actor[a].pc \in {"look", "ack"},
         \A j \in Job : actor[a].job = j /\ actor[a].pc # "idle" =>
           \/ ~Sound(j)'
           \/ a \in Drainer /\ actor[a].pc \in {"look", "ack"}
  PROVE  WInv'
<1> USE NoneOutside
<1>1. /\ actor'[a].pc = "idle" /\ actor'[a].msg = None
      /\ \A b \in Jobs!Actor : b # a => actor'[b] = actor[b]
  BY DEF WInv, JobsType, Jobs!Idle
<1>2. \A i \in Job : (Single(i)' => Single(i)) /\ (Sound(i)' => Sound(i) /\ Single(i))
  BY DEF Single, Sound
<1>3. JobsType' /\ JobsShape' /\ RowShape'
  <2>1. actor' \in JobsActors
    BY DEF WInv, JobsType, JobsActors, Jobs!Idle, WakerRecord, Waking
  <2>2. JobsType'
    BY <2>1 DEF WInv, JobsType, JobsActors, JobsSeen
  <2>3. JobsShape'
    BY <1>1 DEF WInv, JobsShape, Waking, Bound
  <2>4. RowShape'
    BY DEF WInv, RowShape
  <2> QED
    BY <2>2, <2>3, <2>4
<1>4. \A w \in Drainer : /\ actor[w].msg # None => actor[w].msg.job \in Job
                         /\ Claiming(w) \/ Passing(w) => actor[w].msg # None
  BY DEF WInv, JobsType, JobsShape, WakerRecord, Jobs!Message, Claiming, Passing
<1>5. /\ \A w \in Drainer : /\ w # a => actor'[w] = actor[w]
                            /\ Claiming(w)' => Claiming(w) /\ w # a
                            /\ Passing(w)' => Passing(w) /\ w # a
                            /\ \A m \in Jobs!Message : Leaving(w, m)' => Leaving(w, m)
                            /\ \A i \in Job : w # a /\ Holding(w, i) => Holding(w, i)'
      /\ \A b \in Jobs!Actor, i \in Job : b # a /\ Bringing(b, i) => Bringing(b, i)'
  BY <1>1 DEF Claiming, Passing, Holding, Own, Leaving, Bringing
<1>6. OneDelivery'
  <2> SUFFICES ASSUME NEW w \in Drainer, actor'[w].msg # None, Single(actor[w].msg.job)'
               PROVE  /\ actor'[w].msg \in queue'
                      /\ \A v \in Drainer : actor'[v].msg = actor'[w].msg => v = w
    BY DEF OneDelivery
  <2>1. w # a /\ actor'[w] = actor[w] /\ Single(actor[w].msg.job)
    BY <1>1, <1>2, <1>4, <1>5
  <2>2. /\ actor[w].msg \in queue
        /\ \A v \in Drainer : actor[v].msg = actor[w].msg => v = w
    BY <2>1 DEF WInv, OneDelivery
  <2> QED
    BY <1>1, <1>5, <2>1, <2>2
<1>7. ClaimKept' /\ Consumed'
  <2>1. ClaimKept'
    BY <1>2, <1>4, <1>5 DEF WInv, ClaimKept
  <2>2. Consumed'
    BY <1>2, <1>4, <1>5 DEF WInv, Consumed
  <2> QED
    BY <2>1, <2>2
<1>8. Held'
  <2> SUFFICES ASSUME NEW i \in Job, row[i].processing, Sound(i)'
               PROVE  \E w \in Drainer : Holding(w, i)'
    BY DEF Held
  <2>1. PICK w \in Drainer : Holding(w, i)
    BY <1>2 DEF WInv, Held
  <2>2. w # a
    <3> SUFFICES ASSUME w = a PROVE FALSE
      OBVIOUS
    <3>1. actor[a].pc \notin {"idle", "look", "ack"} /\ actor[a].job = i
      BY <2>1 DEF WInv, JobsShape, Holding, Bound
    <3> QED
      BY <3>1
  <2> QED
    BY <1>5, <2>1, <2>2
<1>9. Awaited'
  <2> SUFFICES ASSUME NEW i \in Job, Sound(i)', row[i].token # None,
                      [job |-> i, token |-> row[i].token] \notin queue'
               PROVE  ~row[i].processing /\ \E b \in Jobs!Actor : Bringing(b, i)'
    BY DEF Awaited
  <2>1. Sound(i)
    BY <1>2
  <2>2. [job |-> i, token |-> row[i].token] \notin queue
    <3> SUFFICES ASSUME a \in Drainer, actor[a].pc \in {"look", "ack"},
                        actor[a].msg = [job |-> i, token |-> row[i].token]
                 PROVE  FALSE
      OBVIOUS
    <3> QED
      BY <2>1 DEF WInv, Consumed, Passing
  <2>3. PICK b \in Jobs!Actor : ~row[i].processing /\ Bringing(b, i)
    BY <2>1, <2>2 DEF WInv, Awaited
  <2>4. b # a
    BY <2>3 DEF Bringing
  <2>5. Bringing(b, i)'
    BY <1>5, <2>3, <2>4
  <2> QED
    BY <2>3, <2>5
<1>10. Asked'
  <2> SUFFICES ASSUME NEW i \in Job, Jobs!Live(i), Sound(i)', row[i].token = None
               PROVE  LET m == [job |-> i, token |-> None] IN
                      \/ actor'[Owner].pc = "wake" /\ actor'[Owner].job = i
                      \/ m \in queue' /\ \A w \in Drainer : ~Leaving(w, m)'
    BY DEF Asked, Jobs!Live
  <2> DEFINE m == [job |-> i, token |-> None]
  <2>1. Sound(i) /\ m \in Jobs!Message
    BY <1>2 DEF Jobs!Message
  <2>2. CASE actor[Owner].pc = "wake" /\ actor[Owner].job = i
    BY <1>1, <2>2
  <2>3. CASE m \in queue /\ \A w \in Drainer : ~Leaving(w, m)
    <3>1. m \in queue'
      <4> SUFFICES ASSUME a \in Drainer, actor[a].pc \in {"look", "ack"}, actor[a].msg = m
                   PROVE  FALSE
        BY <2>3
      <4>1. actor[a].pc = "look"
        BY <2>3 DEF Leaving
      <4> QED
        BY <4>1 DEF WInv, JobsShape, Bound
    <3> QED
      BY <1>5, <2>1, <2>3, <3>1
  <2> QED
    BY <2>1, <2>2, <2>3 DEF WInv, Asked
<1> QED
  BY <1>3, <1>6, <1>7, <1>8, <1>9, <1>10 DEF WInv

LEMMA JobsAckKeeps ==
  ASSUME WInv, NEW w \in Drainer, Jobs!Look(w) \/ Jobs!Ack(w)
  PROVE  WInv'
<1>1. /\ actor' = [actor EXCEPT ![w] = Jobs!Idle] /\ UNCHANGED <<row, faults, seen>>
      /\ actor[w].pc \in {"look", "ack"} /\ w \in Jobs!Actor
      /\ queue' = queue \/ queue' = queue \ {actor[w].msg}
  BY NoneOutside DEF Jobs!Look, Jobs!Ack, Jobs!At
<1> QED
  BY <1>1, GoneKeeps DEF WInv, JobsType, JobsSeen

LEMMA JobsDieKeeps ==
  ASSUME WInv, NEW a \in Jobs!Actor, Jobs!Die(a)
  PROVE  WInv'
<1>1. /\ actor' = [actor EXCEPT ![a] = Jobs!Idle] /\ UNCHANGED <<row, queue>>
      /\ faults' \in 0..Faults
  BY NoneOutside DEF WInv, JobsType, Jobs!Die, Jobs!Fault
<1>2. /\ seen' \in JobsSeen /\ \A j \in Job : seen[j] \subseteq seen'[j]
      /\ \A j \in Job : actor[a].job = j => ~Sound(j)'
  BY DEF WInv, JobsType, JobsSeen, Jobs!Die, Sound
<1> QED
  BY <1>1, <1>2, GoneKeeps

LEMMA JobsLoseKeeps ==
  ASSUME WInv, NEW m \in queue, Jobs!Lose(m)
  PROVE  WInv'
<1> USE NoneOutside
<1>1. /\ UNCHANGED <<row, actor>> /\ faults' \in 0..Faults /\ queue' = queue \ {m}
      /\ m \in Jobs!Message /\ m.job \in Job /\ \A a \in Jobs!Actor : actor[a].msg # m
  BY DEF WInv, JobsType, Jobs!Lose, Jobs!Fault, Jobs!Message
<1>2. /\ seen' \in JobsSeen /\ ~Sound(m.job)'
      /\ \A i \in Job : (Single(i)' => Single(i)) /\ (Sound(i)' => Sound(i))
  BY <1>1 DEF WInv, JobsType, JobsSeen, Jobs!Lose, Jobs!Noted, Sound, Single
<1>3. JobsType' /\ JobsShape' /\ RowShape'
  BY <1>1, <1>2 DEF WInv, JobsType, JobsShape, RowShape, JobsSeen
<1>4. \A w \in Drainer : /\ actor[w].msg # None => actor[w].msg.job \in Job
                         /\ Claiming(w) \/ Passing(w) => actor[w].msg # None
  BY DEF WInv, JobsType, JobsShape, WakerRecord, Jobs!Message, Claiming, Passing
<1>5. OneDelivery'
  BY <1>1, <1>2, <1>4 DEF WInv, OneDelivery
<1>6. ClaimKept'
  BY <1>1, <1>2, <1>4 DEF WInv, ClaimKept, Claiming, Own
<1>7. Consumed'
  BY <1>1, <1>2, <1>4 DEF WInv, Consumed, Passing, Own
<1>8. Held'
  BY <1>1, <1>2 DEF WInv, Held, Holding
<1>9. \A i \in Job : \A t : Sound(i)' => m # [job |-> i, token |-> t]
  BY <1>2
<1>10. Awaited'
  BY <1>1, <1>2, <1>9 DEF WInv, Awaited, Bringing
<1>11. Asked'
  BY <1>1, <1>2, <1>9 DEF WInv, Asked, Leaving, Jobs!Live
<1> QED
  BY <1>3, <1>5, <1>6, <1>7, <1>8, <1>10, <1>11 DEF WInv

\* The end of a job's chain: its token goes, if the consumer has claimed it.
LEMMA JobsClearKeeps ==
  ASSUME WInv, NEW w \in Drainer, Jobs!Clear(w)
  PROVE  WInv'
<1> USE NoneOutside
<1>0. /\ actor[w].pc = "clear" /\ UNCHANGED <<queue, faults>> /\ w \in Jobs!Actor
      /\ actor[w].job \in Job /\ actor' = [actor EXCEPT ![w].pc = "sibling"]
  BY DEF WInv, JobsShape, Jobs!Clear, Jobs!At, Jobs!Goto
<1> PICK j \in Job : j = actor[w].job
  BY <1>0
<1>1. /\ actor[w].msg \in Jobs!Message /\ actor[w].msg.token \in Jobs!WakeToken
      /\ actor[w].msg.job = j /\ actor[w].msg # None
      /\ actor[w].msg = [job |-> j, token |-> actor[w].msg.token]
  BY <1>0 DEF WInv, JobsShape, Bound, Jobs!Message
<1> DEFINE claimed == row[j].token = actor[w].msg.token /\ row[j].processing
           broken == claimed /\ Jobs!Live(j)
<1>2. /\ row' = [row EXCEPT ![j] = IF claimed THEN Jobs!Wake(row[j], None) ELSE row[j]]
      /\ seen' = Jobs!Noted(j, "broken", broken)
  BY <1>1 DEF Jobs!Clear, Jobs!Claims
<1>3. /\ actor'[w].pc = "sibling" /\ actor'[w].job = j /\ actor'[w].msg = actor[w].msg
      /\ \A b \in Jobs!Actor : b # w => actor'[b] = actor[b]
  BY <1>0 DEF WInv, JobsType, WakerRecord
<1>4. /\ seen' \in JobsSeen
      /\ \A i \in Job : (Single(i)' => Single(i)) /\ (Sound(i)' => Sound(i) /\ Single(i))
      /\ claimed /\ Jobs!Live(j) => "broken" \in seen'[j]
  <2>1. broken \in BOOLEAN /\ JobsType
    BY DEF WInv
  <2>2. seen' = Jobs!Noted(j, "broken", broken)
    BY <1>2
  <2>3. (claimed /\ Jobs!Live(j)) = broken
    OBVIOUS
  <2> HIDE DEF broken, claimed
  <2>4. /\ Jobs!Noted(j, "broken", broken) \in JobsSeen
        /\ \A i \in Job : Jobs!Noted(j, "broken", broken)[i] =
             IF i = j /\ broken THEN seen[i] \union {"broken"} ELSE seen[i]
    BY <2>1, NotedType
  <2> QED
    BY <2>2, <2>3, <2>4 DEF Single, Sound
<1>5. /\ row' \in [Job -> RowRecord]
      /\ \A i \in Job : /\ row'[i].status = row[i].status /\ row'[i].holder = row[i].holder
                        /\ row'[i].todo = row[i].todo
                        /\ i # j \/ ~claimed => row'[i] = row[i]
      /\ claimed => row'[j].token = None /\ ~row'[j].processing
  <2>1. row \in [Job -> RowRecord] /\ row[j] \in RowRecord
    BY DEF WInv, JobsType
  <2> DEFINE r == Jobs!Wake(row[j], None)
  <2>2. /\ r \in RowRecord /\ r.token = None /\ ~r.processing /\ r.status = row[j].status
        /\ r.holder = row[j].holder /\ r.todo = row[j].todo
    BY <2>1 DEF RowRecord, Jobs!Wake
  <2>3. row' = [row EXCEPT ![j] = IF claimed THEN r ELSE row[j]]
    BY <1>2
  <2> HIDE DEF r, RowRecord, claimed
  <2> QED
    BY <2>1, <2>2, <2>3
<1>6. JobsType' /\ JobsShape' /\ RowShape'
  <2>1. actor' \in JobsActors
    BY <1>0, WakerType DEF WInv, Bound
  <2>2. JobsType'
    BY <1>0, <1>4, <1>5, <2>1 DEF WInv, JobsType, JobsActors, JobsSeen
  <2>3. JobsShape'
    BY <1>1, <1>3 DEF WInv, JobsShape, Waking, Bound
  <2>4. RowShape'
    BY <1>5 DEF WInv, RowShape
  <2> QED
    BY <2>2, <2>3, <2>4
<1>7. \A v \in Drainer : /\ actor'[v].msg = actor[v].msg
                         /\ actor[v].msg # None => actor[v].msg.job \in Job
                         /\ Claiming(v) \/ Passing(v) => actor[v].msg # None
  BY <1>3 DEF WInv, JobsType, JobsShape, WakerRecord, Jobs!Message, Claiming, Passing
<1>8. OneDelivery'
  BY <1>0, <1>4, <1>7 DEF WInv, OneDelivery
<1>9. \A v \in Drainer : /\ Claiming(v)' => Claiming(v) /\ v # w /\ actor[v].msg.token # None
                         /\ v # w /\ Passing(v)' => Passing(v)
                         /\ \A m : Leaving(v, m)' => Leaving(v, m)
  BY <1>3 DEF WInv, JobsShape, Bound, Claiming, Passing, Own, Leaving
<1>10. ClaimKept'
  <2> SUFFICES ASSUME NEW v \in Drainer, Claiming(v)', Single(actor[v].msg.job)',
                      row'[actor[v].msg.job].token = actor[v].msg.token
               PROVE  row'[actor[v].msg.job].processing
    BY <1>7 DEF ClaimKept
  <2>1. /\ Claiming(v) /\ actor[v].msg.token # None /\ actor[v].msg.job \in Job
        /\ Single(actor[v].msg.job)
    BY <1>4, <1>7, <1>9
  <2>2. row'[actor[v].msg.job] = row[actor[v].msg.job]
    BY <1>5, <2>1
  <2> QED
    BY <1>7, <2>1, <2>2 DEF WInv, ClaimKept
<1>11. Consumed'
  <2> SUFFICES ASSUME NEW v \in Drainer, Passing(v)', actor[v].msg.token # None,
                      Sound(actor[v].msg.job)'
               PROVE  row'[actor[v].msg.job].token # actor[v].msg.token
    BY <1>7 DEF Consumed
  <2>1. CASE v # w
    BY <1>4, <1>5, <1>7, <1>9, <2>1 DEF WInv, Consumed
  <2>2. CASE v = w
    <3>1. Claiming(w) /\ Single(j)
      BY <1>0, <1>1, <1>3, <1>4, <2>2 DEF Claiming, Single, Sound
    <3>2. row[j].token = actor[w].msg.token => row[j].processing
      BY <1>1, <3>1 DEF WInv, ClaimKept
    <3> QED
      BY <1>1, <1>5, <2>2, <3>2
  <2> QED
    BY <2>1, <2>2
<1>12. Held'
  <2> SUFFICES ASSUME NEW i \in Job, row'[i].processing, Sound(i)'
               PROVE  \E v \in Drainer : Holding(v, i)'
    BY DEF Held
  <2>1. row'[i] = row[i]
    BY <1>5
  <2>2. PICK v \in Drainer : Holding(v, i)
    BY <1>4, <2>1 DEF WInv, Held
  <2>3. v # w
    BY <1>1, <1>5, <2>1, <2>2 DEF Holding
  <2> QED
    BY <1>3, <2>1, <2>2, <2>3 DEF Holding
<1>13. Awaited'
  <2> SUFFICES ASSUME NEW i \in Job, Sound(i)', row'[i].token # None,
                      [job |-> i, token |-> row'[i].token] \notin queue
               PROVE  ~row'[i].processing /\ \E b \in Jobs!Actor : Bringing(b, i)'
    BY <1>0 DEF Awaited
  <2>1. row'[i] = row[i]
    BY <1>5
  <2>2. PICK b \in Jobs!Actor : ~row[i].processing /\ Bringing(b, i)
    BY <1>4, <2>1 DEF WInv, Awaited
  <2>3. Bringing(b, i)'
    BY <1>0, <1>3, <2>1, <2>2 DEF Bringing
  <2> QED
    BY <2>1, <2>2, <2>3
<1>14. Asked'
  <2> SUFFICES ASSUME NEW i \in Job, Jobs!Live(i)', Sound(i)', row'[i].token = None
               PROVE  LET m == [job |-> i, token |-> None] IN
                      \/ actor'[Owner].pc = "wake" /\ actor'[Owner].job = i
                      \/ m \in queue /\ \A v \in Drainer : ~Leaving(v, m)'
    BY <1>0 DEF Asked
  <2>1. Jobs!Live(i)
    BY <1>5 DEF Jobs!Live
  <2>2. ~(i = j /\ claimed)
    BY <1>4, <2>1 DEF Sound
  <2>3. row[i].token = None /\ Sound(i)
    BY <1>4, <1>5, <2>2
  <2> QED
    BY <1>3, <1>9, <2>1, <2>3 DEF WInv, Asked
<1> QED
  BY <1>6, <1>8, <1>10, <1>11, <1>12, <1>13, <1>14 DEF WInv

\* A consumer that fails gives the row back to its message, which nobody else has.
LEMMA JobsFailedKeeps ==
  ASSUME WInv, NEW w \in Drainer, Jobs!Failed(w)
  PROVE  WInv'
<1> USE NoneOutside
<1>0. /\ actor[w].pc = "failed" /\ UNCHANGED <<queue, faults, seen>> /\ w \in Jobs!Actor
      /\ actor[w].msg \in Jobs!Message /\ actor[w].msg.job \in Job
      /\ actor' = [actor EXCEPT ![w] = Jobs!Idle]
  BY DEF WInv, JobsShape, Jobs!Failed, Jobs!At, Jobs!Message
<1> PICK j \in Job : j = actor[w].msg.job
  BY <1>0
<1>1. actor[w].msg = [job |-> j, token |-> actor[w].msg.token] /\ actor[w].msg # None
  BY <1>0 DEF Jobs!Message
<1> DEFINE claimed == Jobs!Claims(w)
<1>2. /\ row' = [row EXCEPT ![j] = IF claimed THEN Jobs!Unclaimed(row[j]) ELSE row[j]]
      /\ claimed <=> /\ actor[w].msg.token # None /\ row[j].token = actor[w].msg.token
                     /\ row[j].processing
  BY <1>0 DEF Jobs!Failed, Jobs!Claims
<1> HIDE DEF claimed
<1>3. /\ actor'[w].pc = "idle" /\ actor'[w].msg = None
      /\ \A b \in Jobs!Actor : b # w => actor'[b] = actor[b]
      /\ actor' \in JobsActors
  BY <1>0, WakerType DEF WInv, JobsType, Jobs!Idle, Waking
<1>5. /\ row' \in [Job -> RowRecord]
      /\ \A i \in Job : /\ row'[i].status = row[i].status /\ row'[i].holder = row[i].holder
                        /\ row'[i].todo = row[i].todo /\ row'[i].token = row[i].token
                        /\ ~(i = j /\ claimed) => row'[i] = row[i]
      /\ claimed => ~row'[j].processing
  <2>1. row \in [Job -> RowRecord] /\ row[j] \in RowRecord
    BY DEF WInv, JobsType
  <2> DEFINE r == Jobs!Unclaimed(row[j])
  <2>2. /\ r \in RowRecord /\ r.token = row[j].token /\ ~r.processing
        /\ r.status = row[j].status /\ r.holder = row[j].holder /\ r.todo = row[j].todo
    BY <2>1 DEF RowRecord, Jobs!Unclaimed, Jobs!Wake
  <2>3. row' = [row EXCEPT ![j] = IF claimed THEN r ELSE row[j]]
    BY <1>2
  <2> HIDE DEF r, RowRecord
  <2> QED
    BY <2>1, <2>2, <2>3
<1>6. JobsType' /\ JobsShape' /\ RowShape'
  <2>1. JobsType'
    BY <1>0, <1>3, <1>5 DEF WInv, JobsType, JobsActors
  <2>2. JobsShape'
    BY <1>3 DEF WInv, JobsShape, Waking, Bound
  <2>3. RowShape'
    BY <1>5 DEF WInv, RowShape
  <2> QED
    BY <2>1, <2>2, <2>3
<1>7. \A v \in Drainer : /\ actor[v].msg # None => /\ actor[v].msg.job \in Job
                                                   /\ actor[v].msg \in Jobs!Message
                         /\ Claiming(v) \/ Passing(v) => actor[v].msg # None
  BY DEF WInv, JobsType, JobsShape, WakerRecord, Jobs!Message, Claiming, Passing
<1>8. OneDelivery'
  <2> SUFFICES ASSUME NEW v \in Drainer, actor'[v].msg # None, Single(actor[v].msg.job)'
               PROVE  /\ actor'[v].msg \in queue
                      /\ \A u \in Drainer : actor'[u].msg = actor'[v].msg => u = v
    BY <1>0 DEF OneDelivery
  <2>1. v # w /\ actor'[v] = actor[v] /\ Single(actor[v].msg.job)
    BY <1>0, <1>3 DEF Single
  <2>2. /\ actor[v].msg \in queue
        /\ \A u \in Drainer : actor[u].msg = actor[v].msg => u = v
    BY <2>1 DEF WInv, OneDelivery
  <2> QED
    BY <1>3, <2>1, <2>2
<1>9. \A v \in Drainer : /\ v # w => actor'[v] = actor[v]
                         /\ Claiming(v)' => Claiming(v) /\ v # w /\ actor[v].msg.token # None
                         /\ Passing(v)' => Passing(v) /\ v # w
                         /\ \A m \in Jobs!Message : Leaving(v, m)' => Leaving(v, m)
  BY <1>3 DEF WInv, JobsShape, Bound, Claiming, Passing, Own, Leaving
<1>10. ClaimKept'
  <2> SUFFICES ASSUME NEW v \in Drainer, v # w, Claiming(v), Single(actor[v].msg.job),
                      row[actor[v].msg.job].token = actor[v].msg.token
               PROVE  row'[actor[v].msg.job].processing
    BY <1>0, <1>5, <1>7, <1>9 DEF ClaimKept, Single
  <2>1. row[actor[v].msg.job].processing
    BY <1>7 DEF WInv, ClaimKept
  <2>2. ~(actor[v].msg.job = j /\ claimed)
    <3> SUFFICES ASSUME actor[v].msg.job = j, claimed PROVE FALSE
      OBVIOUS
    <3>1. actor[v].msg = actor[w].msg
      BY <1>0, <1>2, <1>7 DEF Jobs!Message
    <3> QED
      BY <1>1, <3>1 DEF WInv, OneDelivery
  <2> QED
    BY <1>5, <1>7, <2>1, <2>2
<1>11. Consumed'
  <2> SUFFICES ASSUME NEW v \in Drainer, Passing(v)', actor'[v].msg.token # None,
                      Sound(actor[v].msg.job)'
               PROVE  row'[actor'[v].msg.job].token # actor'[v].msg.token
    BY DEF Consumed
  <2>1. /\ v # w /\ actor'[v] = actor[v] /\ Passing(v) /\ actor[v].msg.job \in Job
        /\ Sound(actor[v].msg.job)
    BY <1>0, <1>7, <1>9 DEF Sound
  <2>2. row[actor[v].msg.job].token # actor[v].msg.token
    BY <2>1 DEF WInv, Consumed
  <2> QED
    BY <1>5, <2>1, <2>2
<1>12. Held'
  <2> SUFFICES ASSUME NEW i \in Job, row'[i].processing, Sound(i)
               PROVE  \E v \in Drainer : Holding(v, i)'
    BY <1>0 DEF Held, Sound
  <2>1. row'[i] = row[i]
    BY <1>5
  <2>2. PICK v \in Drainer : Holding(v, i)
    BY <2>1 DEF WInv, Held
  <2>3. v # w
    BY <1>1, <1>2, <1>5, <2>1, <2>2 DEF WInv, RowShape, Holding
  <2> QED
    BY <1>3, <2>1, <2>2, <2>3 DEF Holding
<1>13. Awaited'
  <2> SUFFICES ASSUME NEW i \in Job, Sound(i), row[i].token # None,
                      [job |-> i, token |-> row[i].token] \notin queue
               PROVE  ~row'[i].processing /\ \E b \in Jobs!Actor : Bringing(b, i)'
    BY <1>0, <1>5 DEF Awaited, Sound
  <2>1. PICK b \in Jobs!Actor : ~row[i].processing /\ Bringing(b, i)
    BY DEF WInv, Awaited
  <2>2. Bringing(b, i)' /\ ~row'[i].processing
    BY <1>0, <1>2, <1>3, <1>5, <2>1 DEF Bringing
  <2> QED
    BY <2>2
<1>14. Asked'
  <2> SUFFICES ASSUME NEW i \in Job, Jobs!Live(i), Sound(i), row[i].token = None
               PROVE  LET m == [job |-> i, token |-> None] IN
                      \/ actor'[Owner].pc = "wake" /\ actor'[Owner].job = i
                      \/ m \in queue /\ \A v \in Drainer : ~Leaving(v, m)'
    BY <1>0, <1>5 DEF Asked, Sound, Jobs!Live
  <2>1. [job |-> i, token |-> None] \in Jobs!Message
    BY DEF Jobs!Message
  <2> QED
    BY <1>3, <1>9, <2>1 DEF WInv, Asked
<1> QED
  BY <1>6, <1>8, <1>10, <1>11, <1>12, <1>13, <1>14 DEF WInv
-----------------------------------------------------------------------------
(* The owner, webhooks and the pump begin a call: they have no message.    *)
LEMMA CallBegins ==
  ASSUME WInv, NEW a \in {Owner, Cron}, NEW j \in Job, actor[a].pc = "idle",
         actor' = [actor EXCEPT ![a] = [Jobs!Idle EXCEPT !.pc = "wake", !.job = j]],
         UNCHANGED queue, faults' \in 0..Faults, seen' \in JobsSeen,
         row' \in [Job -> RowRecord], RowShape',
         \A i \in Job : seen[i] \subseteq seen'[i],
         \A i \in Job :
           \/ row'[i].token = row[i].token /\ row'[i].processing = row[i].processing
           \/ row'[i].token = None /\ ~row'[i].processing /\ ~Sound(i)',
         \A i \in Job : Jobs!Live(i)' /\ Sound(i)' => Jobs!Live(i) \/ (a = Owner /\ i = j)
  PROVE  WInv'
<1> USE NoneOutside
<1>1. /\ actor'[a].pc = "wake" /\ actor'[a].job = j /\ actor'[a].msg = None
      /\ a \in Jobs!Actor /\ a \notin Drainer /\ actor[a].msg = None
      /\ \A b \in Jobs!Actor : b # a => actor'[b] = actor[b]
  BY DEF WInv, JobsType, JobsShape, Jobs!Idle
<1>2. \A i \in Job : (Single(i)' => Single(i)) /\ (Sound(i)' => Sound(i))
  BY DEF Single, Sound
<1>3. JobsType' /\ JobsShape'
  <2>1. actor' \in JobsActors
    BY <1>1, WakerType DEF WInv, Waking
  <2>2. JobsType'
    BY <2>1 DEF WInv, JobsType, JobsActors, JobsSeen
  <2>3. JobsShape'
    BY <1>1 DEF WInv, JobsShape, Waking, Bound
  <2> QED
    BY <2>2, <2>3
<1>4. \A w \in Drainer : /\ actor'[w] = actor[w] /\ Claiming(w)' = Claiming(w)
                         /\ Passing(w)' = Passing(w)
                         /\ \A m : Leaving(w, m)' = Leaving(w, m)
                         /\ actor[w].msg # None => actor[w].msg.job \in Job
                         /\ Claiming(w) => actor[w].msg # None /\ actor[w].msg.token # None
                         /\ Passing(w) => actor[w].msg # None
  BY <1>1 DEF WInv, JobsType, JobsShape, WakerRecord, Jobs!Message, Claiming, Passing, Own,
              Leaving, Bound
<1>5. OneDelivery'
  BY <1>2, <1>4 DEF WInv, OneDelivery
<1>6. ClaimKept'
  <2> SUFFICES ASSUME NEW w \in Drainer, Claiming(w), Single(actor[w].msg.job),
                      row'[actor[w].msg.job].token = actor[w].msg.token
               PROVE  row'[actor[w].msg.job].processing
    BY <1>2, <1>4 DEF ClaimKept
  <2> QED
    BY <1>4 DEF WInv, ClaimKept
<1>7. Consumed'
  <2> SUFFICES ASSUME NEW w \in Drainer, Passing(w), actor[w].msg.token # None,
                      Sound(actor[w].msg.job)
               PROVE  row'[actor[w].msg.job].token # actor[w].msg.token
    BY <1>2, <1>4 DEF Consumed
  <2> QED
    BY <1>4 DEF WInv, Consumed
<1>8. Held'
  BY <1>1, <1>2, <1>4 DEF WInv, Held, Holding
<1>9. Awaited'
  <2> SUFFICES ASSUME NEW i \in Job, Sound(i)', row'[i].token # None,
                      [job |-> i, token |-> row'[i].token] \notin queue
               PROVE  ~row'[i].processing /\ \E b \in Jobs!Actor : Bringing(b, i)'
    BY DEF Awaited
  <2>1. row'[i].token = row[i].token /\ row'[i].processing = row[i].processing /\ Sound(i)
    BY <1>2
  <2>2. PICK b \in Jobs!Actor : ~row[i].processing /\ Bringing(b, i)
    BY <2>1 DEF WInv, Awaited
  <2>3. Bringing(b, i)'
    BY <1>1, <2>1, <2>2 DEF Bringing
  <2> QED
    BY <2>1, <2>2, <2>3
<1>10. Asked'
  <2> SUFFICES ASSUME NEW i \in Job, Jobs!Live(i)', Sound(i)', row'[i].token = None,
                      ~(a = Owner /\ i = j)
               PROVE  LET m == [job |-> i, token |-> None] IN
                      \/ actor'[Owner].pc = "wake" /\ actor'[Owner].job = i
                      \/ m \in queue /\ \A w \in Drainer : ~Leaving(w, m)'
    BY <1>1 DEF Asked
  <2>1. Jobs!Live(i) /\ Sound(i) /\ row[i].token = None
    BY <1>2
  <2>2. actor[Owner].pc = "wake" /\ actor[Owner].job = i => actor'[Owner] = actor[Owner]
    BY <1>1
  <2> QED
    BY <1>4, <2>1, <2>2 DEF WInv, Asked
<1> QED
  BY <1>3, <1>5, <1>6, <1>7, <1>8, <1>9, <1>10 DEF WInv

LEMMA JobsCallKeeps ==
  ASSUME WInv, NEW j \in Job, Jobs!Start(j) \/ Jobs!Resume(j)
  PROVE  WInv'
<1> USE NoneOutside
<1>1. /\ actor[Owner].pc = "idle" /\ UNCHANGED <<queue, faults, seen>>
      /\ actor' = [actor EXCEPT ![Owner] = [Jobs!Idle EXCEPT !.pc = "wake", !.job = j]]
      /\ \/ row' = [row EXCEPT ![j].status = IF @ = "unborn" THEN "queued" ELSE @]
         \/ row' = [row EXCEPT ![j].status = "queued", ![j].rest = FALSE]
      /\ row[j].status = "unborn" \/ Jobs!Live(j) \/ row[j].status = "paused"
      /\ Jobs!Live(j) => row' = [row EXCEPT ![j].status = IF @ = "unborn" THEN "queued" ELSE @]
  BY DEF Jobs!Start, Jobs!Resume, Jobs!At, Jobs!Call, Jobs!Live
<1>2. /\ row' \in [Job -> RowRecord]
      /\ \A i \in Job : /\ row'[i].token = row[i].token /\ row'[i].todo = row[i].todo
                        /\ row'[i].processing = row[i].processing
                        /\ row'[i].holder = row[i].holder
                        /\ i # j => row'[i] = row[i]
      /\ Jobs!Live(j) => row'[j].status = row[j].status
  <2>1. row \in [Job -> RowRecord] /\ row[j] \in RowRecord
    BY DEF WInv, JobsType
  <2> DEFINE status == IF row[j].status = "unborn" THEN "queued" ELSE row[j].status
             r == [row[j] EXCEPT !.status = status]
             s == [row[j] EXCEPT !.status = "queued", !.rest = FALSE]
  <2>2. status \in {"unborn", "queued", "running", "paused", "finished", "cancelled"}
    BY <2>1 DEF RowRecord
  <2>3. Jobs!Live(j) => status = row[j].status
    BY DEF Jobs!Live
  <2>4. /\ row' = [row EXCEPT ![j] = r] \/ row' = [row EXCEPT ![j] = s]
        /\ Jobs!Live(j) => row' = [row EXCEPT ![j] = r]
    BY <1>1, <2>1
  <2> HIDE DEF status
  <2>5. /\ r \in RowRecord /\ r.token = row[j].token /\ r.todo = row[j].todo
        /\ r.processing = row[j].processing /\ r.holder = row[j].holder /\ r.status = status
        /\ s \in RowRecord /\ s.token = row[j].token /\ s.todo = row[j].todo
        /\ s.processing = row[j].processing /\ s.holder = row[j].holder
    BY <2>1, <2>2 DEF RowRecord
  <2> HIDE DEF r, s, RowRecord
  <2> QED
    BY <2>1, <2>3, <2>4, <2>5
<1>3. RowShape'
  <2>1. ~Jobs!Live(j) => row[j].holder = None /\ row[j].todo # 0
    BY <1>1 DEF WInv, RowShape, Jobs!Live
  <2>2. Jobs!Live(j) => row[j].todo # 0
    BY DEF WInv, RowShape, Jobs!Live
  <2> QED
    BY <1>2, <2>1, <2>2 DEF WInv, RowShape
<1>4. \A i \in Job : Jobs!Live(i)' => Jobs!Live(i) \/ i = j
  BY <1>2 DEF Jobs!Live
<1>5. seen' \in JobsSeen /\ faults' \in 0..Faults
  BY <1>1 DEF WInv, JobsType, JobsSeen
<1>6. \A i \in Job : /\ seen[i] \subseteq seen'[i]
                     /\ row'[i].token = row[i].token /\ row'[i].processing = row[i].processing
                     /\ Jobs!Live(i)' /\ Sound(i)' => Jobs!Live(i) \/ i = j
  BY <1>1, <1>2, <1>4
<1>7. UNCHANGED queue /\ actor[Owner].pc = "idle" /\ Owner \in {Owner, Cron}
  BY <1>1
<1>8. row' \in [Job -> RowRecord]
  BY <1>2
<1> HIDE DEF RowRecord
<1> QED
  BY <1>1, <1>3, <1>5, <1>6, <1>7, <1>8, CallBegins

LEMMA JobsReplaceKeeps ==
  ASSUME WInv, Jobs!Replace
  PROVE  WInv'
<1> USE NoneOutside
<1> DEFINE moved == {i \in Job : row[i].status \in {"queued", "running", "paused"}}
<1>1. PICK j \in moved :
        actor' = [actor EXCEPT ![Owner] = [Jobs!Idle EXCEPT !.pc = "wake", !.job = j]]
  BY DEF Jobs!Replace, Jobs!Call
<1>2. /\ actor[Owner].pc = "idle" /\ UNCHANGED queue /\ faults' \in 0..Faults
      /\ row' = [i \in Job |-> IF i \in moved THEN Jobs!Requeued(row[i]) ELSE row[i]]
      /\ seen' = [i \in Job |-> IF i \in moved THEN seen[i] \union {"broken"} ELSE seen[i]]
  BY DEF WInv, JobsType, Jobs!Replace, Jobs!At, Jobs!Fault
<1>3. \A i \in Job :
        /\ row[i] \in RowRecord /\ Jobs!Requeued(row[i]) \in RowRecord
        /\ Jobs!Requeued(row[i]).token = None /\ ~Jobs!Requeued(row[i]).processing
        /\ Jobs!Requeued(row[i]).holder = None /\ Jobs!Requeued(row[i]).todo = row[i].todo
  <2> TAKE i \in Job
  <2>1. row[i] \in RowRecord
    BY DEF WInv, JobsType
  <2> QED
    BY <2>1 DEF RowRecord, Jobs!Requeued, Jobs!Wake
<1>4. row' \in [Job -> RowRecord]
  <2> HIDE DEF moved, RowRecord
  <2> QED
    BY <1>2, <1>3
<1>5. RowShape'
  BY <1>2, <1>3 DEF WInv, RowShape
<1>6. /\ seen' \in JobsSeen
      /\ \A i \in Job : /\ seen[i] \subseteq seen'[i]
                        /\ i \in moved => ~Sound(i)'
  BY <1>2 DEF WInv, JobsType, JobsSeen, Sound
<1>7. \A i \in Job : i \notin moved => row'[i] = row[i]
  BY <1>2
<1> QED
  BY <1>1, <1>2, <1>3, <1>4, <1>5, <1>6, <1>7, CallBegins DEF Jobs!Live

LEMMA JobsPumpKeeps ==
  ASSUME WInv, Jobs!CronFires
  PROVE  WInv'
<1>1. PICK j \in Jobs!Due :
        actor' = [actor EXCEPT ![Cron] = [Jobs!Idle EXCEPT !.pc = "wake", !.job = j]]
  BY DEF Jobs!CronFires
<1>2. /\ actor[Cron].pc = "idle" /\ UNCHANGED <<row, queue, faults, seen>> /\ j \in Job
  BY DEF Jobs!CronFires, Jobs!At, Jobs!Due
<1>3. /\ row' \in [Job -> RowRecord] /\ RowShape' /\ faults' \in 0..Faults
      /\ seen' \in JobsSeen
  BY <1>2 DEF WInv, JobsType, RowShape, JobsSeen
<1>4. \A i \in Job : /\ seen[i] \subseteq seen'[i]
                     /\ row'[i].token = row[i].token /\ row'[i].processing = row[i].processing
                     /\ Jobs!Live(i)' => Jobs!Live(i)
  BY <1>2 DEF Jobs!Live
<1>5. UNCHANGED queue /\ Cron \in {Owner, Cron}
  BY <1>2
<1> QED
  BY <1>1, <1>2, <1>3, <1>4, <1>5, CallBegins

LEMMA JobsCancelKeeps ==
  ASSUME WInv, NEW j \in Job, Jobs!Cancel(j)
  PROVE  WInv'
<1> USE NoneOutside
<1>1. UNCHANGED <<queue, actor, faults, seen>>
  BY DEF Jobs!Cancel
<1>2. /\ row' \in [Job -> RowRecord]
      /\ \A i \in Job : /\ row'[i].todo = row[i].todo
                        /\ i # j => row'[i] = row[i]
      /\ row'[j].token = None /\ ~row'[j].processing /\ row'[j].holder = None
      /\ row'[j].status = "cancelled" /\ row[j].status # "finished"
  <2>1. row \in [Job -> RowRecord] /\ row[j] \in RowRecord
    BY DEF WInv, JobsType
  <2> DEFINE r == [Jobs!Wake(row[j], None) EXCEPT !.status = "cancelled", !.holder = None,
                     !.lease = FALSE, !.rest = FALSE]
  <2>2. /\ r \in RowRecord /\ r.token = None /\ ~r.processing /\ r.holder = None
        /\ r.status = "cancelled" /\ r.todo = row[j].todo
    BY <2>1 DEF RowRecord, Jobs!Wake
  <2>3. row' = [row EXCEPT ![j] = r] /\ row[j].status # "finished"
    BY DEF Jobs!Cancel
  <2> HIDE DEF r, RowRecord
  <2> QED
    BY <2>1, <2>2, <2>3
<1>3. JobsType' /\ JobsShape'
  BY <1>1, <1>2 DEF WInv, JobsType, JobsShape
<1>4. RowShape'
  BY <1>2 DEF WInv, RowShape
<1>5. \A w \in Drainer : /\ Claiming(w)' = Claiming(w) /\ Passing(w)' = Passing(w)
                         /\ \A m : Leaving(w, m)' = Leaving(w, m)
                         /\ actor[w].msg # None => actor[w].msg.job \in Job
                         /\ Claiming(w) => actor[w].msg # None /\ actor[w].msg.token # None
                         /\ Passing(w) => actor[w].msg # None
  BY <1>1 DEF WInv, JobsType, JobsShape, WakerRecord, Jobs!Message, Claiming, Passing, Own,
              Leaving, Bound
<1>6. OneDelivery'
  BY <1>1 DEF WInv, OneDelivery, Single
<1>7. ClaimKept'
  BY <1>1, <1>2, <1>5 DEF WInv, ClaimKept, Single
<1>8. Consumed'
  BY <1>1, <1>2, <1>5 DEF WInv, Consumed, Sound
<1>9. Held' /\ Awaited'
  BY <1>1, <1>2 DEF WInv, Held, Holding, Awaited, Bringing, Sound
<1>10. Asked'
  BY <1>1, <1>2, <1>5 DEF WInv, Asked, Sound, Jobs!Live
<1> QED
  BY <1>3, <1>4, <1>6, <1>7, <1>8, <1>9, <1>10 DEF WInv
-----------------------------------------------------------------------------
LEMMA JobsNextKeeps == WInv /\ Jobs!Next => WInv'
<1> SUFFICES ASSUME WInv, Jobs!Next PROVE WInv'
  OBVIOUS
<1>1. ASSUME NEW a \in Jobs!Actor,
             Jobs!Wakes(a) \/ Jobs!SendFails(a) \/ Jobs!RestoreFails(a) \/ Jobs!Die(a)
      PROVE  WInv'
  BY <1>1, ReserveKeeps, JobsSendKeeps, JobsRestoreKeeps, JobsDieKeeps DEF Jobs!Wakes
<1>2. ASSUME NEW w \in Drainer, Jobs!Works(w) \/ Jobs!Throw(w)
      PROVE  WInv'
  BY <1>2, JobsClaimKeeps, JobsAckKeeps, DrainKeeps, SliceKeeps, TurnKeeps, JobsClearKeeps,
     JobsFailedKeeps DEF Jobs!Works
<1>3. ASSUME NEW w \in Drainer, NEW m \in queue, NEW run \in BOOLEAN, Jobs!Deliver(w, m, run)
      PROVE  WInv'
  BY <1>3, JobsDeliverKeeps
<1>4. ASSUME NEW j \in Job, Jobs!Start(j) \/ Jobs!Resume(j) \/ Jobs!Cancel(j)
      PROVE  WInv'
  BY <1>4, JobsCallKeeps, JobsCancelKeeps
<1>5. ASSUME NEW m \in queue, Jobs!Lose(m)
      PROVE  WInv'
  BY <1>5, JobsLoseKeeps
<1>6. CASE Jobs!Replace \/ Jobs!CronFires \/ Jobs!Lapses
  BY <1>6, JobsReplaceKeeps, JobsPumpKeeps, LapseKeeps
<1> QED
  BY <1>1, <1>2, <1>3, <1>4, <1>5, <1>6 DEF Jobs!Next

LEMMA JobsStutterKeeps ==
  ASSUME WInv, UNCHANGED <<row, queue, actor, faults, seen>>
  PROVE  WInv'
<1>1. JobsType' /\ JobsShape' /\ RowShape'
  BY DEF WInv, JobsType, JobsShape, RowShape
<1>2. OneDelivery' /\ ClaimKept' /\ Consumed'
  BY DEF WInv, OneDelivery, ClaimKept, Consumed, Single, Sound, Claiming, Passing, Own
<1>3. Held' /\ Awaited' /\ Asked'
  BY DEF WInv, Held, Awaited, Asked, Sound, Holding, Bringing, Leaving, Jobs!Live
<1> QED
  BY <1>1, <1>2, <1>3 DEF WInv

\* Whoever holds a wake, will send it or is asked for it carries its job.
LEMMA JobCarried ==
  ASSUME WInv
  PROVE  Jobs!ChainAlive
<1> USE NoneOutside
<1> SUFFICES ASSUME NEW j \in Job, Jobs!Live(j), seen[j] \intersect {"broken", "twice"} = {}
             PROVE  Jobs!Carried(j)
  BY DEF Jobs!ChainAlive
<1>1. Sound(j)
  BY DEF WInv, JobsType, Sound
<1>2. CASE row[j].token # None
  <2>1. CASE [job |-> j, token |-> row[j].token] \in queue
    BY <2>1 DEF Jobs!Carried
  <2>2. CASE \E a \in Jobs!Actor : Bringing(a, j)
    BY <2>2 DEF Bringing, Jobs!Carried
  <2> QED
    BY <1>1, <1>2, <2>1, <2>2 DEF WInv, Awaited
<1>3. CASE row[j].token = None
  <2>1. CASE actor[Owner].pc = "wake" /\ actor[Owner].job = j
    BY <2>1 DEF Jobs!Carried
  <2>2. CASE [job |-> j, token |-> None] \in queue
    BY <2>2 DEF Jobs!Carried
  <2> QED
    BY <1>1, <1>3, <2>1, <2>2 DEF WInv, Asked
<1> QED
  BY <1>2, <1>3

\* The specification of ProviderWakes, with any jobs and any failures at once,
\* keeps its invariant, and a live job's wake is with somebody.
THEOREM JobsInvariant == Jobs!Spec => []WInv
<1>1. Jobs!Init => WInv
  BY JobsInit
<1>2. WInv /\ [Jobs!Next]_Jobs!vars => WInv'
  BY JobsNextKeeps, JobsStutterKeeps DEF Jobs!vars
<1> QED
  BY <1>1, <1>2, PTL DEF Jobs!Spec

THEOREM JobsAlive == Jobs!Spec => []Jobs!ChainAlive
<1>1. WInv => Jobs!ChainAlive
  BY JobCarried
<1> QED
  BY <1>1, JobsInvariant, PTL
-----------------------------------------------------------------------------
\* The specification that the run maintenance checks: what a step of either part
\* keeps.
ProductPart == Product(TRUE) => PInv
ProviderPart == Provider(TRUE) => WInv

\* A step of the product part keeps its invariant, and so does one of the other.
LEMMA ProductKeeps ==
  ProductPart /\ [ChainsNext]_<<part, vars>> => ProductPart'
<1> SUFFICES ASSUME ProductPart, [ChainsNext]_<<part, vars>>, part \in {"calls", "fails"}
             PROVE  PInv'
  BY DEF ProductPart, Product, ChainsNext
<1>1. PInv
  BY DEF ProductPart, Product
<1>2. Next \/ UNCHANGED vars
  BY DEF ChainsNext, ProductDoes, Product, JobsDo, Provider
<1> QED
  BY <1>1, <1>2, NextKeeps, StutterKeeps

LEMMA ProviderKeeps ==
  ProviderPart /\ [ChainsNext]_<<part, vars>> => ProviderPart'
<1> SUFFICES ASSUME ProviderPart, [ChainsNext]_<<part, vars>>, part \in {"many", "one"}
             PROVE  WInv'
  BY DEF ProviderPart, Provider, ChainsNext
<1>1. WInv
  BY DEF ProviderPart, Provider
<1>2. Jobs!Next \/ UNCHANGED <<row, queue, actor, faults, seen>>
  BY DEF ChainsNext, ProductDoes, Product, JobsDo, Provider, vars
<1> QED
  BY <1>1, <1>2, JobsNextKeeps, JobsStutterKeeps

LEMMA PartsInit == ChainsInit => ProductPart /\ ProviderPart
  BY InitPInv, JobsInit DEF ChainsInit, ProductPart, ProviderPart, Product, Provider

\* Two runs of the product archive do not overlap, however many consumers,
\* duplicates and failures there are.
THEOREM OneRunAlways == ChainsSpec => []OneRun
<1>1. ProductPart => OneRun
  BY OwnerAlone DEF ProductPart, OneRun, Product
<1> QED
  BY <1>1, PartsInit, ProductKeeps, PTL DEF ChainsSpec

\* No row of either chain ever waits for a message that nobody carries, unless
\* its history says that its wake was lost.
THEOREM AliveAlways == ChainsSpec => []Alive
<1>1. ProductPart /\ ProviderPart => Alive
  BY CarrierFound, JobCarried DEF ProductPart, ProviderPart, Alive, Product, Provider
<1> QED
  BY <1>1, PartsInit, ProductKeeps, ProviderKeeps, PTL DEF ChainsSpec
=============================================================================
